---- MODULE Spec2Model ----
(***************************************************************************)
(* Verification model of the YAML-Linting repository's fixers.            *)
(*                                                                         *)
(* A text is a non-empty sequence of lines (the result of split('\n')),   *)
(* a line is a sequence of one-character strings, so that trimming,       *)
(* prefix tests and the regular expressions of the source are computed    *)
(* character by character.  Confidences are percentages (0.8 is 80).      *)
(* The human-readable `reason` of a fix is not modelled.                  *)
(***************************************************************************)
EXTENDS Integers, Sequences, FiniteSets, TLC

\* ------------------------------------------------------------------------
\* Characters and string primitives (JavaScript String methods)
\* ------------------------------------------------------------------------
Lower == {"a","b","c","d","e","f","g","h","i","j","k","l","m","n","o","p","q","r","s","t","u","v","w","x","y","z"}

Upper == {"A","B","C","D","E","F","G","H","I","J","K","L","M","N","O","P","Q","R","S","T","U","V","W","X","Y","Z"}

Digit == {"0","1","2","3","4","5","6","7","8","9"}

\* \s of the regular expressions, restricted to the characters of the model
IsWs(c) == c \in {" ", "\t"}

\* String.prototype.toLowerCase on one character
LowerOf(c) ==
  CASE c = "A" -> "a" [] c = "B" -> "b" [] c = "C" -> "c" [] c = "D" -> "d"
    [] c = "E" -> "e" [] c = "F" -> "f" [] c = "G" -> "g" [] c = "H" -> "h"
    [] c = "I" -> "i" [] c = "J" -> "j" [] c = "K" -> "k" [] c = "L" -> "l"
    [] c = "M" -> "m" [] c = "N" -> "n" [] c = "O" -> "o" [] c = "P" -> "p"
    [] c = "Q" -> "q" [] c = "R" -> "r" [] c = "S" -> "s" [] c = "T" -> "t"
    [] c = "U" -> "u" [] c = "V" -> "v" [] c = "W" -> "w" [] c = "X" -> "x"
    [] c = "Y" -> "y" [] c = "Z" -> "z" [] OTHER -> c

RECURSIVE LowerFrom(_, _)
LowerFrom(s, i) == IF i > Len(s) THEN <<>> ELSE <<LowerOf(s[i])>> \o LowerFrom(s, i + 1)

toLowerCase(s) == LowerFrom(s, 1)

\* number of leading whitespace characters: line.match(/^(\s*)/)[1].length
RECURSIVE LeadWs(_, _)
LeadWs(s, i) == IF i <= Len(s) /\ IsWs(s[i]) THEN LeadWs(s, i + 1) ELSE i - 1

RECURSIVE TrailWs(_, _)
TrailWs(s, i) == IF i >= 1 /\ IsWs(s[i]) THEN TrailWs(s, i - 1) ELSE Len(s) - i

\* s.substring(from) with a 0-based index
substring(s, from) == IF from >= Len(s) THEN <<>> ELSE SubSeq(s, from + 1, Len(s))

\* s.substring(from, to) with 0-based indexes
substring2(s, from, to) == IF to <= from THEN <<>> ELSE SubSeq(s, from + 1, to)

trimRight(s) == SubSeq(s, 1, Len(s) - TrailWs(s, Len(s)))

trim(s) == LET l == LeadWs(s, 1) IN IF l = Len(s) THEN <<>> ELSE SubSeq(s, l + 1, Len(s) - TrailWs(s, Len(s)))

startsWith(s, p) == Len(s) >= Len(p) /\ SubSeq(s, 1, Len(p)) = p

endsWith(s, p) == Len(s) >= Len(p) /\ SubSeq(s, Len(s) - Len(p) + 1, Len(s)) = p

\* s.indexOf(c) for a single character, 0-based, -1 when absent
RECURSIVE IndexFrom(_, _, _)
IndexFrom(s, c, i) == IF i > Len(s) THEN -1 ELSE IF s[i] = c THEN i - 1 ELSE IndexFrom(s, c, i + 1)

indexOf(s, c) == IndexFrom(s, c, 1)

includes(s, c) == \E i \in 1..Len(s) : s[i] = c

repeat(c, n) == [i \in 1..n |-> c]

\* s.split(/\s+/): the maximal runs of non-whitespace, with the empty
\* leading/trailing pieces JavaScript produces for leading/trailing blanks
RECURSIVE SplitWsFrom(_, _, _, _)
SplitWsFrom(s, i, cur, out) ==
  IF i > Len(s) THEN Append(out, cur)
  ELSE IF IsWs(s[i])
       THEN IF i > 1 /\ IsWs(s[i - 1]) THEN SplitWsFrom(s, i + 1, cur, out)
            ELSE SplitWsFrom(s, i + 1, <<>>, Append(out, cur))
       ELSE SplitWsFrom(s, i + 1, Append(cur, s[i]), out)

splitWs(s) == SplitWsFrom(s, 1, <<>>, <<>>)

RECURSIVE joinSpace(_)
joinSpace(parts) ==
  IF Len(parts) = 0 THEN <<>>
  ELSE IF Len(parts) = 1 THEN parts[1]
  ELSE parts[1] \o <<" ">> \o joinSpace(Tail(parts))

AllIn(s, from, S) == \A i \in from..Len(s) : s[i] \in S

\* ------------------------------------------------------------------------
\* Knowledge base (src/src/knowledge/field-patterns.ts, type-registry.ts)
\* ------------------------------------------------------------------------
kName == <<"n","a","m","e">>

kMetadata == <<"m","e","t","a","d","a","t","a">>

kSpec == <<"s","p","e","c">>

kData == <<"d","a","t","a">>

kKind == <<"k","i","n","d">>

kApiVersion == <<"a","p","i","V","e","r","s","i","o","n">>

kStatus == <<"s","t","a","t","u","s">>

kNamespace == <<"n","a","m","e","s","p","a","c","e">>

kLabels == <<"l","a","b","e","l","s">>

kAnnotations == <<"a","n","n","o","t","a","t","i","o","n","s">>

kUid == <<"u","i","d">>

kResourceVersion == <<"r","e","s","o","u","r","c","e","V","e","r","s","i","o","n">>

kReplicas == <<"r","e","p","l","i","c","a","s">>

kImage == <<"i","m","a","g","e">>

kValue == <<"v","a","l","u","e">>

kValueFrom == <<"v","a","l","u","e","F","r","o","m">>

kMountPath == <<"m","o","u","n","t","P","a","t","h">>

kPort == <<"p","o","r","t">>

kType == <<"t","y","p","e">>

\* KNOWN_FIELDS in insertion order.  The entries kept are the ones a key of
\* the bounded input vocabulary can equal or come within edit distance 2 of
\* (data, name, spec), with the other top-level fields; no key the model
\* can produce matches any of the remaining entries of the table.
KNOWN_FIELDS == << kApiVersion, kKind, kMetadata, kSpec, kStatus, kData, kName >>

isKnownField(fieldName) == \E i \in 1..Len(KNOWN_FIELDS) : KNOWN_FIELDS[i] = fieldName

\* FIELD_ALIASES, restricted like KNOWN_FIELDS: canonical name and aliases
FIELD_ALIASES ==
  << [canonical |-> kMetadata, aliases |-> {<<"m","e","t","d","a","t","a">>, <<"m","e","t","a">>, <<"m","e","t">>}],
     [canonical |-> kSpec, aliases |-> {<<"s","p","e","c","i","f","i","c","a","t","i","o","n">>, <<"s","p","c">>}],
     [canonical |-> kName, aliases |-> {<<"n","m">>, <<"i","d">>}] >>

\* getCanonicalFieldName: first canonical whose alias list holds the
\* lower-cased name; <<>> stands for undefined
getCanonicalFieldName(fieldName) ==
  LET hits == {i \in 1..Len(FIELD_ALIASES) : toLowerCase(fieldName) \in FIELD_ALIASES[i].aliases}
  IN IF hits = {} THEN <<>>
     ELSE FIELD_ALIASES[CHOOSE i \in hits : \A j \in hits : i <= j].canonical

\* FIELD_PATTERNS: /^[a-z][a-zA-Z0-9]*$/, /^[a-z][a-z0-9-]*$/, /^[a-z]+$/
matchesKubernetesPattern(f) ==
  /\ Len(f) >= 1
  /\ f[1] \in Lower
  /\ \/ AllIn(f, 2, Lower \cup Upper \cup Digit)
     \/ AllIn(f, 2, Lower \cup Digit \cup {"-"})
     \/ AllIn(f, 2, Lower)

\* getExpectedType for the fields of the model: "" stands for undefined
getExpectedType(f) ==
  IF f \in {kReplicas, kPort} THEN "number"
  ELSE IF f \in {kName, kNamespace, kImage, kType, kMountPath, kApiVersion, kKind} THEN "string"
  ELSE IF f \in {kMetadata, kSpec, kLabels, kAnnotations, kValueFrom} THEN "object"
  ELSE ""

\* ------------------------------------------------------------------------
\* IndentationTracker (src/src/semantic/indentation-tracker.ts)
\* ------------------------------------------------------------------------
sepDashes == <<"-","-","-">>

sepDots == <<".",".",".">>

\* pop frames while indent <= top.indent
RECURSIVE PopFrames(_, _)
PopFrames(stack, indent) ==
  IF Len(stack) > 0 /\ indent <= stack[Len(stack)].indent
  THEN PopFrames(SubSeq(stack, 1, Len(stack) - 1), indent)
  ELSE stack

\* processLine without the pop of line 26
processLineNoPop(tr, content, indent) ==
  IF trim(content) = sepDashes
  THEN [indentStack |-> <<>>, currentIndent |-> 0]
  ELSE [indentStack |-> tr.indentStack, currentIndent |-> indent]

\* processLine: a `---` line resets the tracker, any other line pops
processLine(tr, content, indent) ==
  IF trim(content) = sepDashes
  THEN [indentStack |-> <<>>, currentIndent |-> 0]
  ELSE [indentStack |-> PopFrames(tr.indentStack, indent), currentIndent |-> indent]

push(tr, indent, key, type, lineNumber) ==
  [tr EXCEPT !.indentStack = Append(@, [indent |-> indent, key |-> key, type |-> type, lineNumber |-> lineNumber])]

getCurrentPath(tr) == [i \in 1..Len(tr.indentStack) |-> tr.indentStack[i].key]

\* ------------------------------------------------------------------------
\* ContextAnalyzer (src/src/semantic/context-analyzer.ts)
\* ------------------------------------------------------------------------
getIndent(line) == LeadWs(line, 1)

\* classifyLine: the ordered checks on the trimmed line
classifyLine(trimmed) ==
  IF trimmed = <<>> THEN "blank"
  ELSE IF startsWith(trimmed, <<"#">>) THEN "comment"
  ELSE IF trimmed = sepDashes \/ trimmed = sepDots THEN "separator"
  ELSE IF trimmed \in {<<"|">>, <<">">>, <<"|","-">>, <<">","-">>} THEN "block-scalar"
  ELSE IF startsWith(trimmed, <<"-"," ">>) THEN "list-item"
  ELSE IF includes(trimmed, ":")
       THEN LET afterColon == trim(substring(trimmed, indexOf(trimmed, ":") + 1))
            IN IF afterColon = <<>> \/ startsWith(afterColon, <<"#">>) THEN "key-only" ELSE "key-value"
  ELSE IF trimmed[1] \in Lower \cup Upper /\ AllIn(trimmed, 2, Lower \cup Upper \cup Digit \cup {"_", "-"})
       THEN "key-only"
  ELSE "value-only"

\* extractKeyValue: key and value of a key-bearing line; <<>> is undefined
\* (an undefined and an empty key or value are both falsy in every use)
extractKeyValue(trimmed0) ==
  LET trimmed == IF startsWith(trimmed0, <<"-"," ">>) THEN trim(substring(trimmed0, 2)) ELSE trimmed0
      colonIndex == indexOf(trimmed, ":")
  IN IF colonIndex /= -1
     THEN [key |-> trim(substring2(trimmed, 0, colonIndex)), value |-> trim(substring(trimmed, colonIndex + 1))]
     ELSE [key |-> trimmed, value |-> <<>>]

\* the state of a fresh ContextAnalyzer: createEmptyContext and a new tracker
EmptyAnalyzer ==
  [resourceType |-> <<>>, apiVersion |-> <<>>, currentPath |-> <<>>,
   inBlockScalar |-> FALSE, blockScalarIndent |-> -1, documentIndex |-> 0,
   tracker |-> [indentStack |-> <<>>, currentIndent |-> 0]]

\* updateContext: kind/apiVersion, current path, block scalar flag, push
updateContext(an, line) ==
  LET a1 == IF line.key = kKind /\ line.value /= <<>> THEN [an EXCEPT !.resourceType = line.value] ELSE an
      a2 == IF line.key = kApiVersion /\ line.value /= <<>> THEN [a1 EXCEPT !.apiVersion = line.value] ELSE a1
      a3 == [a2 EXCEPT !.currentPath = getCurrentPath(a2.tracker)]
      bsi == IF a3.blockScalarIndent = -1 THEN 0 ELSE a3.blockScalarIndent
      a4 == IF line.type = "block-scalar"
            THEN [a3 EXCEPT !.inBlockScalar = TRUE, !.blockScalarIndent = line.indent]
            ELSE IF a3.inBlockScalar /\ line.indent <= bsi
                 THEN [a3 EXCEPT !.inBlockScalar = FALSE, !.blockScalarIndent = -1]
                 ELSE a3
  IN IF line.key /= <<>> /\ line.type /= "value-only"
     THEN [a4 EXCEPT !.tracker = push(a4.tracker, line.indent, line.key,
                                      IF line.isListItem THEN "array" ELSE "object", line.lineNumber)]
     ELSE a4

\* analyzeLine: returns the semantic line and the analyzer state after it
analyzeLine(an, lineNumber, content) ==
  LET trimmed == trim(content)
      indent == getIndent(content)
      tr == processLine(an.tracker, content, indent)
      lineType == classifyLine(trimmed)
      kv == IF lineType \in {"key-value", "key-only"} THEN extractKeyValue(trimmed)
            ELSE [key |-> <<>>, value |-> <<>>]
      line == [lineNumber |-> lineNumber, content |-> content, indent |-> indent,
               type |-> lineType, key |-> kv.key, value |-> kv.value,
               isListItem |-> startsWith(trimmed, <<"-">>), hasColon |-> includes(trimmed, ":"),
               parent |-> 0, children |-> <<>>]
  IN [line |-> line, an |-> updateContext([an EXCEPT !.tracker = tr], line)]

\* ------------------------------------------------------------------------
\* SemanticParser (src/unnamed/part_001)
\* ------------------------------------------------------------------------
\* the loop of parse: a line met while the analyzer is inside a block scalar
\* is recorded with type block-scalar, and still fed to analyzeLine
RECURSIVE ParseLoop(_, _, _, _)
ParseLoop(rawLines, i, an, out) ==
  IF i > Len(rawLines) THEN [lines |-> out, an |-> an]
  ELSE LET r == analyzeLine(an, i, rawLines[i])
           line == IF an.inBlockScalar
                   THEN [lineNumber |-> i, content |-> rawLines[i], indent |-> getIndent(rawLines[i]),
                         type |-> "block-scalar", key |-> <<>>, value |-> <<>>,
                         isListItem |-> FALSE, hasColon |-> FALSE, parent |-> 0, children |-> <<>>]
                   ELSE r.line
       IN ParseLoop(rawLines, i + 1, r.an, Append(out, line))

\* buildRelationships: one left-to-right pass with a stack of open lines;
\* parent and children are line numbers (0: no parent)
RECURSIVE BuildLoop(_, _, _)
BuildLoop(lines, i, stack) ==
  IF i > Len(lines) THEN lines
  ELSE IF lines[i].type \in {"blank", "comment"} THEN BuildLoop(lines, i + 1, stack)
  ELSE LET popped == PopFrames([k \in 1..Len(stack) |-> [indent |-> lines[stack[k]].indent, n |-> stack[k]]],
                               lines[i].indent)
           st == [k \in 1..Len(popped) |-> popped[k].n]
           par == IF Len(st) > 0 THEN st[Len(st)] ELSE 0
           l1 == IF par = 0 THEN lines
                 ELSE [lines EXCEPT ![i].parent = par, ![par].children = Append(@, i)]
           st2 == IF lines[i].type \in {"key-only", "key-value", "list-item"} THEN Append(st, i) ELSE st
       IN BuildLoop(l1, i + 1, st2)

buildRelationships(lines) == BuildLoop(lines, 1, <<>>)

\* parse: a new SemanticParser holds a fresh analyzer; the result keeps the
\* lines and the analyzer state the fixers read afterwards
parse(yamlContent) ==
  LET r == ParseLoop(yamlContent, 1, EmptyAnalyzer, <<>>)
  IN [lines |-> buildRelationships(r.lines), an |-> r.an]

\* findSiblings: same parent, same indent, another line, not blank/comment
findSiblings(lines, line) ==
  SelectSeq(lines, LAMBDA l : /\ l.parent = line.parent
                              /\ l.indent = line.indent
                              /\ l.lineNumber /= line.lineNumber
                              /\ l.type \notin {"blank", "comment"})

\* getNextNonBlankLine: line number of the next line that is neither blank
\* nor a comment, 0 when there is none
getNextNonBlankLine(lines, lineNumber) ==
  LET c == {i \in (lineNumber + 1)..Len(lines) : lines[i].type \notin {"blank", "comment"}}
  IN IF c = {} THEN 0 ELSE CHOOSE i \in c : \A j \in c : i <= j

\* ------------------------------------------------------------------------
\* Fix suggestions (FixSuggestion of src/src/semantic/intelligent-fixer.ts)
\* ------------------------------------------------------------------------
MkFix(lineNumber, type, original, fixed, confidence, severity) ==
  [lineNumber |-> lineNumber, type |-> type, original |-> original, fixed |-> fixed,
   confidence |-> confidence, severity |-> severity]

\* the filter every fixer applies to its own suggestion before returning it
Keep(fixSeq, threshold) == SelectSeq(fixSeq, LAMBDA f : f.confidence >= threshold)

RECURSIVE FlatMap(_, _, _)
FlatMap(Op(_), lines, i) == IF i > Len(lines) THEN <<>> ELSE Op(lines[i]) \o FlatMap(Op, lines, i + 1)

\* ------------------------------------------------------------------------
\* ContextAwareKeyFixer (src/src/fixers/context-aware-key-fixer.ts)
\* ------------------------------------------------------------------------
\* detectMissingColonInListItem: zero or one suggestion
detectMissingColonInListItem(lines, line, trimmed) ==
  LET afterDash == trim(substring(trimmed, 2))
      parts == splitWs(afterDash)
      key == parts[1]
      value == joinSpace(Tail(parts))
      indent == repeat(" ", line.indent)
      nextLine == getNextNonBlankLine(lines, line.lineNumber)
      confidence == IF isKnownField(key) THEN 95 ELSE IF matchesKubernetesPattern(key) THEN 75 ELSE 60
  IN IF Len(parts) >= 2 /\ isKnownField(key)
     THEN << MkFix(line.lineNumber, "missing-colon", line.content,
                   indent \o <<"-"," ">> \o key \o <<":"," ">> \o value, 95, "error") >>
     ELSE IF Len(parts) >= 2 /\ matchesKubernetesPattern(key)
     THEN << MkFix(line.lineNumber, "missing-colon", line.content,
                   indent \o <<"-"," ">> \o key \o <<":"," ">> \o value, 70, "warning") >>
     ELSE IF Len(parts) = 1 /\ nextLine /= 0 /\ lines[nextLine].indent > line.indent
     THEN << MkFix(line.lineNumber, "missing-colon", line.content,
                   indent \o <<"-"," ">> \o key \o <<":">>, confidence,
                   IF confidence >= 80 THEN "error" ELSE "warning") >>
     ELSE <<>>

\* detectMissingColonInKey: zero or one suggestion
detectMissingColonInKey(lines, line, trimmed) ==
  LET parts == splitWs(trimmed)
      key == parts[1]
      value == joinSpace(Tail(parts))
      indent == repeat(" ", line.indent)
      expectedType == getExpectedType(key)
      nextLine == getNextNonBlankLine(lines, line.lineNumber)
      base == IF isKnownField(key) THEN 95 ELSE IF matchesKubernetesPattern(key) THEN 75 ELSE 60
      siblings == findSiblings(lines, line)
      siblingsWithColons == Len(SelectSeq(siblings, LAMBDA l : l.hasColon))
      \* siblingsWithColons / siblings.length > 0.8
      confidence == IF Len(siblings) > 0 /\ siblingsWithColons * 10 > 8 * Len(siblings) /\ base < 85
                    THEN 85 ELSE base
  IN IF Len(parts) >= 2 /\ isKnownField(key)
     THEN << MkFix(line.lineNumber, "missing-colon", line.content,
                   indent \o key \o <<":"," ">> \o value, 95, "error") >>
     ELSE IF Len(parts) >= 2 /\ matchesKubernetesPattern(key)
     THEN IF expectedType /= "" /\ expectedType /= "object" /\ expectedType /= "array"
          THEN << MkFix(line.lineNumber, "missing-colon", line.content,
                        indent \o key \o <<":"," ">> \o value, 85, "error") >>
          ELSE << MkFix(line.lineNumber, "missing-colon", line.content,
                        indent \o key \o <<":"," ">> \o value, 70, "warning") >>
     ELSE IF Len(parts) = 1 /\ nextLine /= 0 /\ lines[nextLine].indent > line.indent
     THEN << MkFix(line.lineNumber, "missing-colon", line.content,
                   indent \o key \o <<":">>, confidence,
                   IF confidence >= 80 THEN "error" ELSE "warning") >>
     ELSE <<>>

detectMissingColon(lines, line) ==
  LET trimmed == trim(line.content)
  IN IF startsWith(trimmed, <<"-"," ">>)
     THEN detectMissingColonInListItem(lines, line, trimmed)
     ELSE detectMissingColonInKey(lines, line, trimmed)

\* findMissingColons: lines with a colon, blank lines, comments and lines
\* typed block-scalar are skipped
findMissingColons(p, threshold) ==
  LET One(line) == IF line.hasColon \/ line.type \in {"blank", "comment", "block-scalar"}
                   THEN <<>> ELSE Keep(detectMissingColon(p.lines, line), threshold)
  IN FlatMap(One, p.lines, 1)

\* ------------------------------------------------------------------------
\* Fuzzy matcher (src/src/fixers/utils/fuzzy-matcher.ts)
\* ------------------------------------------------------------------------
Min2(a, b) == IF a <= b THEN a ELSE b

\* one row of the Levenshtein matrix from the previous row (row[j+1] is matrix[i][j])
RECURSIVE LevRow(_, _, _, _, _)
LevRow(prev, ch, str2, j, row) ==
  IF j > Len(str2) THEN row
  ELSE LET cost == IF ch = str2[j] THEN 0 ELSE 1
           v == Min2(Min2(prev[j + 1] + 1, row[j] + 1), prev[j] + cost)
       IN LevRow(prev, ch, str2, j + 1, Append(row, v))

RECURSIVE LevRows(_, _, _, _)
LevRows(str1, str2, i, prev) ==
  IF i > Len(str1) THEN prev[Len(str2) + 1]
  ELSE LevRows(str1, str2, i + 1, LevRow(prev, str1[i], str2, 1, <<i>>))

\* the first row of the matrix: 0, 1, ..., n
RECURSIVE LevRow0(_, _)
LevRow0(n, row) == IF Len(row) > n THEN row ELSE LevRow0(n, Append(row, Len(row)))

levenshteinDistance(str1, str2) == LevRows(str1, str2, 1, LevRow0(Len(str2), <<>>))

\* findClosestMatch: first candidate of least distance <= maxDistance;
\* distance -1 stands for null
RECURSIVE ClosestLoop(_, _, _, _, _)
ClosestLoop(target, candidates, maxDistance, i, best) ==
  IF i > Len(candidates) THEN best
  ELSE LET distance == levenshteinDistance(toLowerCase(target), toLowerCase(candidates[i]))
       IN IF distance <= maxDistance /\ (best.distance = -1 \/ distance < best.distance)
          THEN ClosestLoop(target, candidates, maxDistance, i + 1, [match |-> candidates[i], distance |-> distance])
          ELSE ClosestLoop(target, candidates, maxDistance, i + 1, best)

findClosestMatch(target, candidates, maxDistance) ==
  ClosestLoop(target, candidates, maxDistance, 1, [match |-> <<>>, distance |-> -1])

\* calculateFuzzyConfidence for the distances findClosestMatch can return
calculateFuzzyConfidence(distance) ==
  IF distance = 0 THEN 100 ELSE IF distance = 1 THEN 90 ELSE 70

\* ------------------------------------------------------------------------
\* FieldNormalizer (src/unnamed/part_002)
\* ------------------------------------------------------------------------
\* isContextAppropriate reads the analyzer's current path as it stands
\* after the whole text has been parsed
isContextAppropriate(path, suggestedField) ==
  IF Len(path) = 0
  THEN suggestedField \in {kApiVersion, kKind, kMetadata, kSpec, kData, kStatus}
  ELSE IF \E i \in 1..Len(path) : path[i] = kMetadata
  THEN suggestedField \in {kName, kNamespace, kLabels, kAnnotations, kUid, kResourceVersion}
  ELSE TRUE

createTypoFix(line, correctField, confidence) ==
  LET indent == repeat(" ", line.indent)
      prefix == IF line.isListItem THEN <<"-"," ">> ELSE <<>>
      suffix == IF line.hasColon
                THEN <<":">> \o (IF line.value /= <<>> THEN <<" ">> \o line.value ELSE <<>>)
                ELSE <<>>
  IN MkFix(line.lineNumber, "field-normalization", line.content,
           indent \o prefix \o correctField \o suffix, confidence,
           IF confidence >= 85 THEN "error" ELSE "warning")

detectTypo(p, line) ==
  LET fieldName == line.key
      canonical == getCanonicalFieldName(fieldName)
      match == findClosestMatch(fieldName, KNOWN_FIELDS, 2)
      confidence == calculateFuzzyConfidence(match.distance)
  IN IF isKnownField(fieldName) THEN <<>>
     ELSE IF canonical /= <<>> THEN << createTypoFix(line, canonical, 90) >>
     ELSE IF match.distance /= -1
     THEN IF isContextAppropriate(p.an.currentPath, match.match)
          THEN << createTypoFix(line, match.match, Min2(confidence + 10, 100)) >>
          ELSE << createTypoFix(line, match.match, confidence) >>
     ELSE <<>>

findTypos(p, threshold) ==
  LET One(line) == IF line.key = <<>> \/ line.type \in {"blank", "comment", "block-scalar"}
                   THEN <<>> ELSE Keep(detectTypo(p, line), threshold)
  IN FlatMap(One, p.lines, 1)

\* ------------------------------------------------------------------------
\* ListStructureFixer (src/src/fixers/list-structure-fixer.ts)
\* ------------------------------------------------------------------------
\* /^-\s+<first><rest>*$/ on a trimmed line
DashScalar(trimmed, first, rest) ==
  /\ Len(trimmed) >= 3
  /\ trimmed[1] = "-"
  /\ IsWs(trimmed[2])
  /\ LET k == LeadWs(substring(trimmed, 1), 1) + 2
     IN /\ k <= Len(trimmed)
        /\ trimmed[k] \in first
        /\ AllIn(trimmed, k + 1, rest)

fixBrokenEnvVar(lines, line) ==
  LET trimmed == trim(line.content)
      nextLine == getNextNonBlankLine(lines, line.lineNumber)
  IN IF ~DashScalar(trimmed, Upper \cup {"_"}, Upper \cup Digit \cup {"_"}) THEN <<>>
     ELSE IF nextLine = 0 THEN <<>>
     ELSE IF lines[nextLine].key = kValue \/ lines[nextLine].key = kValueFrom
     THEN << MkFix(line.lineNumber, "list-restructure", line.content,
                   repeat(" ", line.indent) \o <<"-"," ">> \o kName \o <<":"," ">> \o trim(substring(trimmed, 2)),
                   85, "error") >>
     ELSE <<>>

\* fixBrokenContainer (nextKey image) and fixBrokenVolumeMount (nextKey
\* mountPath) have the same body
fixBrokenNamed(lines, line, nextKey) ==
  LET trimmed == trim(line.content)
      nextLine == getNextNonBlankLine(lines, line.lineNumber)
  IN IF ~DashScalar(trimmed, Lower, Lower \cup Digit \cup {"-"}) THEN <<>>
     ELSE IF nextLine = 0 THEN <<>>
     ELSE IF lines[nextLine].key = nextKey /\ lines[nextLine].indent > line.indent
     THEN << MkFix(line.lineNumber, "list-restructure", line.content,
                   repeat(" ", line.indent) \o <<"-"," ">> \o kName \o <<":"," ">> \o trim(substring(trimmed, 2)),
                   80, "error") >>
     ELSE <<>>

fixBrokenContainer(lines, line) == fixBrokenNamed(lines, line, kImage)

fixBrokenVolumeMount(lines, line) == fixBrokenNamed(lines, line, kMountPath)

findBrokenLists(p, threshold) ==
  LET One(line) == IF ~line.isListItem THEN <<>>
                   ELSE Keep(fixBrokenEnvVar(p.lines, line), threshold)
                        \o Keep(fixBrokenContainer(p.lines, line), threshold)
                        \o Keep(fixBrokenVolumeMount(p.lines, line), threshold)
  IN FlatMap(One, p.lines, 1)

\* ------------------------------------------------------------------------
\* TypeCoercer (fixers/type-coercer.ts is not among the sources; modelled
\* from the specification's description of the type coercion pass)
\* ------------------------------------------------------------------------
IsQuotedNumber(v) ==
  /\ Len(v) >= 3
  /\ v[1] \in {"\"", "'"}
  /\ v[Len(v)] = v[1]
  /\ \A i \in 2..(Len(v) - 1) : v[i] \in Digit

findTypeMismatches(p, threshold) ==
  LET One(line) ==
        IF line.type = "key-value" /\ getExpectedType(line.key) = "number" /\ IsQuotedNumber(line.value)
        THEN Keep(<< MkFix(line.lineNumber, "type-coercion", line.content,
                           repeat(" ", line.indent) \o (IF line.isListItem THEN <<"-"," ">> ELSE <<>>)
                             \o line.key \o <<":"," ">> \o SubSeq(line.value, 2, Len(line.value) - 1),
                           85, "warning") >>, threshold)
        ELSE <<>>
  IN FlatMap(One, p.lines, 1)

\* ------------------------------------------------------------------------
\* Confidence scorer (src/unnamed/part_004)
\* ------------------------------------------------------------------------
filterByConfidence(fixes, threshold) == SelectSeq(fixes, LAMBDA fix : fix.confidence >= threshold)

\* ------------------------------------------------------------------------
\* IntelligentYAMLFixer (src/src/semantic/intelligent-fixer.ts)
\* ------------------------------------------------------------------------
\* Array.prototype.sort is stable: insertion of each element after the
\* elements that do not come after it
RECURSIVE InsertBy(_, _, _)
InsertBy(Before(_, _), sorted, x) ==
  IF Len(sorted) = 0 THEN <<x>>
  ELSE IF Before(x, sorted[1]) THEN <<x>> \o sorted
  ELSE <<sorted[1]>> \o InsertBy(Before, Tail(sorted), x)

RECURSIVE SortBy(_, _, _, _)
SortBy(Before(_, _), xs, i, acc) ==
  IF i > Len(xs) THEN acc ELSE SortBy(Before, xs, i + 1, InsertBy(Before, acc, xs[i]))

sortDescending(fixes) == SortBy(LAMBDA a, b : a.lineNumber > b.lineNumber, fixes, 1, <<>>)

sortAscending(fixes) == SortBy(LAMBDA a, b : a.lineNumber < b.lineNumber, fixes, 1, <<>>)

\* the loop of applyFixes with the upper guard one line too far
RECURSIVE ApplyLoopOffByOne(_, _, _)
ApplyLoopOffByOne(lines, sortedFixes, i) ==
  IF i > Len(sortedFixes) THEN lines
  ELSE IF sortedFixes[i].lineNumber > 0 /\ sortedFixes[i].lineNumber <= Len(lines)
       THEN ApplyLoopOffByOne([lines EXCEPT ![sortedFixes[i].lineNumber] = sortedFixes[i].fixed],
                              sortedFixes, i + 1)
  ELSE IF sortedFixes[i].lineNumber = Len(lines) + 1
       THEN ApplyLoopOffByOne(Append(lines, sortedFixes[i].fixed), sortedFixes, i + 1)
  ELSE ApplyLoopOffByOne(lines, sortedFixes, i + 1)

RECURSIVE ApplyLoop(_, _, _)
ApplyLoop(lines, sortedFixes, i) ==
  IF i > Len(sortedFixes) THEN lines
  ELSE LET fix == sortedFixes[i]
       IN IF fix.lineNumber > 0 /\ fix.lineNumber <= Len(lines)
          THEN ApplyLoop([lines EXCEPT ![fix.lineNumber] = fix.fixed], sortedFixes, i + 1)
          ELSE ApplyLoop(lines, sortedFixes, i + 1)

\* applyFixes: replace the targeted lines, fixes taken in descending line order
applyFixes(yamlContent, fixes) == ApplyLoop(yamlContent, sortDescending(fixes), 1)

\* the suggestions of one iteration: the four passes in order, then the filter
iterationFixes(currentYaml, opts) ==
  LET p == parse(currentYaml)
      threshold == opts.confidenceThreshold
  IN filterByConfidence(findMissingColons(p, threshold) \o findTypos(p, threshold)
                          \o findBrokenLists(p, threshold) \o findTypeMismatches(p, threshold),
                        threshold)

\* ------------------------------------------------------------------------
\* Bounds and inputs
\* ------------------------------------------------------------------------
\* longest input text, in lines
MaxLines == 3

\* fix calls made on one fixer instance in one behaviour
MaxCalls == 2

\* setOptions calls made on one fixer instance in one behaviour
MaxSets == 1

\* largest iteration cap a client supplies
MaxIter == 2

\* confidence thresholds a client supplies: the aggressive 0.6, the default
\* 0.8 and one in between
Thresholds == {60, 70, 80}

\* the lines input texts are made of: a capitalised parent key without its
\* colon, two alias typos and a known key without their colon, and the
\* opening line of a literal block scalar
Vocab ==
  { <<"F","o","o">>,
    <<" "," ","n","m"," ","v">>,
    <<" "," ","s","p","c"," ","w">>,
    <<" "," ","n","a","m","e"," ","v">>,
    <<"d","a","t","a",":"," ","|">> }

Docs == UNION {[1..n -> Vocab] : n \in 1..MaxLines}

\* ------------------------------------------------------------------------
\* The external parser (js-yaml).  yaml.load either returns or throws an
\* error carrying a mark with a 0-based line and column.  Its answer is a
\* function of the text.  The function is left open except on the texts
\* below, where the answer of the library is certain; parserMemo records
\* the answers given so far, so that a text gets one answer per behaviour.
\* ------------------------------------------------------------------------
ParseOk == [ok |-> TRUE, line |-> 0, column |-> 0]

NameChars == Lower \cup Upper \cup Digit

\* `key: value` after the indent, key and value plain alphanumeric words
IsPlainPair(line) ==
  LET body == trim(line)
      c == indexOf(body, ":")
  IN /\ c >= 1
     /\ Len(body) >= c + 3
     /\ \A i \in 1..c : body[i] \in NameChars
     /\ body[c + 2] = " "
     /\ \A i \in (c + 3)..Len(body) : body[i] \in NameChars

\* `key:` after the indent
IsPlainParent(line) ==
  LET body == trim(line)
  IN /\ Len(body) >= 2
     /\ body[Len(body)] = ":"
     /\ \A i \in 1..(Len(body) - 1) : body[i] \in NameChars

KeyOf(line) == LET body == trim(line) IN substring2(body, 0, indexOf(body, ":"))

NonBlank(text) == {i \in 1..Len(text) : trim(text[i]) /= <<>>}

\* the lines S are plain pairs at one indent
PlainPairs(text, S) ==
  /\ \A i \in S : IsPlainPair(text[i]) /\ ~includes(text[i], "\t")
  /\ \A i, j \in S : getIndent(text[i]) = getIndent(text[j])

FirstOf(S) == CHOOSE i \in S : \A j \in S : i <= j

\* a flat block mapping of plain pairs (a text of blank lines is the empty
\* document)
FlatMapping(text) == PlainPairs(text, NonBlank(text))

\* one parent key whose children are plain pairs at one deeper indent
NestedMapping(text) ==
  LET nb == NonBlank(text)
  IN /\ nb /= {}
     /\ IsPlainParent(text[FirstOf(nb)])
     /\ ~includes(text[FirstOf(nb)], "\t")
     /\ nb \ {FirstOf(nb)} /= {}
     /\ PlainPairs(text, nb \ {FirstOf(nb)})
     /\ \A j \in nb \ {FirstOf(nb)} : getIndent(text[j]) > getIndent(text[FirstOf(nb)])

\* the pair lines of such a text repeat no key
DistinctKeys(text) ==
  LET S == IF FlatMapping(text) THEN NonBlank(text) ELSE NonBlank(text) \ {FirstOf(NonBlank(text))}
  IN \A i, j \in S : i < j => KeyOf(text[i]) /= KeyOf(text[j])

\* texts js-yaml certainly loads
PlainlyValid(text) == (FlatMapping(text) \/ NestedMapping(text)) /\ DistinctKeys(text)

\* a first line of plain words without a colon, continued by a more deeply
\* indented `key: value` line: the plain scalar ends at the colon and the
\* rest of the stream is not a document
ScalarThenPair(text) ==
  LET nb == NonBlank(text)
  IN /\ nb /= {}
     /\ \A k \in 1..Len(text[FirstOf(nb)]) : text[FirstOf(nb)][k] \in NameChars \cup {" "}
     /\ nb \ {FirstOf(nb)} /= {}
     /\ LET second == FirstOf(nb \ {FirstOf(nb)})
        IN /\ IsPlainPair(text[second])
           /\ getIndent(text[second]) > getIndent(text[FirstOf(nb)])

\* texts js-yaml certainly rejects: a mapping that repeats a key, or a plain
\* scalar followed by a mapping entry
PlainlyInvalid(text) ==
  \/ (FlatMapping(text) \/ NestedMapping(text)) /\ ~DistinctKeys(text)
  \/ ScalarThenPair(text)

\* the error js-yaml throws: its mark is placed on the last line of the text
ParseError(text) == [ok |-> FALSE, line |-> Len(text) - 1, column |-> 1]

ParserAnswers(text) ==
  IF PlainlyValid(text) THEN {ParseOk}
  ELSE IF PlainlyInvalid(text) THEN {ParseError(text)}
  ELSE {ParseOk, ParseError(text)}

\* ------------------------------------------------------------------------
\* YAMLFixer (src/src/core/yaml-fixer.ts): knowledge tables
\* ------------------------------------------------------------------------
\* typo -> correct form, as pairs
KEY_ALIASES ==
  { <<<<"m","e","t">>, <<"m","e","t","a","d","a","t","a">>>>, <<<<"m","e","t","a">>, <<"m","e","t","a","d","a","t","a">>>>, <<<<"m","e","t","d","a","t","a">>, <<"m","e","t","a","d","a","t","a">>>>,
    <<<<"m","e","t","a","d","a","t","a","_">>, <<"m","e","t","a","d","a","t","a">>>>, <<<<"m","e","t","a","d","t","a">>, <<"m","e","t","a","d","a","t","a">>>>,
    <<<<"s","p","e","c","f">>, <<"s","p","e","c">>>>, <<<<"s","p","e","c","_">>, <<"s","p","e","c">>>>, <<<<"s","e","p","c">>, <<"s","p","e","c">>>>, <<<<"s","p","c">>, <<"s","p","e","c">>>>,
    <<<<"c","o","n","t","i","a","n","e","r","s">>, <<"c","o","n","t","a","i","n","e","r","s">>>>, <<<<"c","o","n","t","a","i","n","e","r","s","_">>, <<"c","o","n","t","a","i","n","e","r","s">>>>,
    <<<<"c","o","n","t","e","i","n","e","r","s">>, <<"c","o","n","t","a","i","n","e","r","s">>>>, <<<<"c","o","n","t","a","i","n","r","e","s">>, <<"c","o","n","t","a","i","n","e","r","s">>>>,
    <<<<"v","o","l","u","m","n","s">>, <<"v","o","l","u","m","e","s">>>>, <<<<"v","o","l","u","m","s">>, <<"v","o","l","u","m","e","s">>>>, <<<<"v","o","l","u","m","e","s","_">>, <<"v","o","l","u","m","e","s">>>>,
    <<<<"v","o","l","u","m","n","e","s">>, <<"v","o","l","u","m","e","s">>>>,
    <<<<"e","n","v","s">>, <<"e","n","v">>>>, <<<<"e","n","v","_">>, <<"e","n","v">>>>, <<<<"e","n","v","i","r","o","m","e","n","t">>, <<"e","n","v">>>>, <<<<"e","n","v","i","r","o","n","m","e","n","t">>, <<"e","n","v">>>>,
    <<<<"l","a","b","e","l","s","_">>, <<"l","a","b","e","l","s">>>>, <<<<"l","a","b","l","e","s">>, <<"l","a","b","e","l","s">>>>, <<<<"l","a","b","e","s">>, <<"l","a","b","e","l","s">>>>,
    <<<<"a","n","n","o","t","a","t","i","o","n","s","_">>, <<"a","n","n","o","t","a","t","i","o","n","s">>>>, <<<<"a","n","n","o","t","a","i","o","n","s">>, <<"a","n","n","o","t","a","t","i","o","n","s">>>>,
    <<<<"i","m","a","g","e","_">>, <<"i","m","a","g","e">>>>, <<<<"i","m","g">>, <<"i","m","a","g","e">>>>,
    <<<<"p","o","r","t","s","_">>, <<"p","o","r","t","s">>>>, <<<<"p","o","r","t","_">>, <<"p","o","r","t","s">>>>,
    <<<<"s","e","l","e","c","t","o","r","_">>, <<"s","e","l","e","c","t","o","r">>>>, <<<<"s","e","l","e","c","t","e","r">>, <<"s","e","l","e","c","t","o","r">>>>,
    <<<<"r","e","p","l","i","c","a","s","_">>, <<"r","e","p","l","i","c","a","s">>>>, <<<<"r","e","p","l","i","c","a">>, <<"r","e","p","l","i","c","a","s">>>>,
    <<<<"n","a","m","e","s","p","a","c","e","_">>, <<"n","a","m","e","s","p","a","c","e">>>>, <<<<"n","a","m","e","s","p","c","e">>, <<"n","a","m","e","s","p","a","c","e">>>>, <<<<"n","a","m","e","s","a","p","c","e">>, <<"n","a","m","e","s","p","a","c","e">>>>,
    <<<<"d","a","t">>, <<"d","a","t","a">>>>,
    <<<<"s","e","c","u","r","i","t","y","c","o","n","t","e","x","t">>, <<"s","e","c","u","r","i","t","y","C","o","n","t","e","x","t">>>>, <<<<"f","s","g","r","o","u","p">>, <<"f","s","G","r","o","u","p">>>>,
    <<<<"r","u","n","a","s","u","s","e","r">>, <<"r","u","n","A","s","U","s","e","r">>>>, <<<<"a","c","c","e","s","s","m","o","d","e","s">>, <<"a","c","c","e","s","s","M","o","d","e","s">>>> }

KNOWN_K8S_KEYS ==
  { <<"a","p","i","V","e","r","s","i","o","n">>, <<"k","i","n","d">>, <<"m","e","t","a","d","a","t","a">>, <<"s","p","e","c">>, <<"s","t","a","t","u","s">>,
    <<"n","a","m","e">>, <<"n","a","m","e","s","p","a","c","e">>, <<"l","a","b","e","l","s">>, <<"a","n","n","o","t","a","t","i","o","n","s">>,
    <<"r","e","p","l","i","c","a","s">>, <<"s","e","l","e","c","t","o","r">>, <<"t","e","m","p","l","a","t","e">>, <<"s","t","r","a","t","e","g","y">>,
    <<"c","o","n","t","a","i","n","e","r","s">>, <<"i","n","i","t","C","o","n","t","a","i","n","e","r","s">>, <<"v","o","l","u","m","e","s">>, <<"v","o","l","u","m","e","M","o","u","n","t","s">>,
    <<"i","m","a","g","e">>, <<"i","m","a","g","e","P","u","l","l","P","o","l","i","c","y">>, <<"c","o","m","m","a","n","d">>, <<"a","r","g","s">>, <<"e","n","v">>, <<"e","n","v","F","r","o","m">>,
    <<"p","o","r","t","s">>, <<"c","o","n","t","a","i","n","e","r","P","o","r","t">>, <<"h","o","s","t","P","o","r","t">>, <<"p","r","o","t","o","c","o","l">>,
    <<"r","e","s","o","u","r","c","e","s">>, <<"l","i","m","i","t","s">>, <<"r","e","q","u","e","s","t","s">>, <<"c","p","u">>, <<"m","e","m","o","r","y">>,
    <<"r","e","s","t","a","r","t","P","o","l","i","c","y">>, <<"n","o","d","e","S","e","l","e","c","t","o","r">>, <<"a","f","f","i","n","i","t","y">>, <<"t","o","l","e","r","a","t","i","o","n","s">>,
    <<"s","e","r","v","i","c","e","A","c","c","o","u","n","t","N","a","m","e">>, <<"s","e","c","u","r","i","t","y","C","o","n","t","e","x","t">>, <<"h","o","s","t","N","e","t","w","o","r","k">>,
    <<"t","y","p","e">>, <<"c","l","u","s","t","e","r","I","P">>, <<"e","x","t","e","r","n","a","l","I","P","s">>, <<"l","o","a","d","B","a","l","a","n","c","e","r","I","P">>,
    <<"p","o","r","t">>, <<"t","a","r","g","e","t","P","o","r","t">>, <<"n","o","d","e","P","o","r","t">>,
    <<"p","a","t","h">>, <<"p","a","t","h","T","y","p","e">>, <<"b","a","c","k","e","n","d">>, <<"s","e","r","v","i","c","e","N","a","m","e">>, <<"s","e","r","v","i","c","e","P","o","r","t">>,
    <<"d","a","t","a">>, <<"s","t","r","i","n","g","D","a","t","a">>, <<"b","i","n","a","r","y","D","a","t","a">>,
    <<"r","u","l","e","s">>, <<"v","e","r","b","s">>, <<"a","p","i","G","r","o","u","p","s">>,
    <<"e","f","f","e","c","t">>, <<"k","e","y">>, <<"o","p","e","r","a","t","o","r">>, <<"v","a","l","u","e">>, <<"t","o","l","e","r","a","t","i","o","n","S","e","c","o","n","d","s">>,
    <<"p","e","r","s","i","s","t","e","n","t","V","o","l","u","m","e","C","l","a","i","m">>, <<"a","c","c","e","s","s","M","o","d","e","s">>, <<"f","s","G","r","o","u","p">>, <<"r","u","n","A","s","U","s","e","r">>, <<"m","a","t","c","h","L","a","b","e","l","s">>,
    <<"c","l","a","i","m","N","a","m","e">>, <<"s","t","o","r","a","g","e">>, <<"d","i","s","k","t","y","p","e">> }

NUMERIC_FIELDS ==
  { <<"r","e","p","l","i","c","a","s">>, <<"c","o","n","t","a","i","n","e","r","P","o","r","t">>, <<"p","o","r","t">>, <<"t","a","r","g","e","t","P","o","r","t">>, <<"n","o","d","e","P","o","r","t">>,
    <<"h","o","s","t","P","o","r","t">>, <<"t","i","m","e","o","u","t","S","e","c","o","n","d","s">>, <<"p","e","r","i","o","d","S","e","c","o","n","d","s">>, <<"s","u","c","c","e","s","s","T","h","r","e","s","h","o","l","d">>,
    <<"f","a","i","l","u","r","e","T","h","r","e","s","h","o","l","d">>, <<"i","n","i","t","i","a","l","D","e","l","a","y","S","e","c","o","n","d","s">>, <<"t","e","r","m","i","n","a","t","i","o","n","G","r","a","c","e","P","e","r","i","o","d","S","e","c","o","n","d","s">>,
    <<"a","c","t","i","v","e","D","e","a","d","l","i","n","e","S","e","c","o","n","d","s">>, <<"p","r","o","g","r","e","s","s","D","e","a","d","l","i","n","e","S","e","c","o","n","d","s">>, <<"r","e","v","i","s","i","o","n","H","i","s","t","o","r","y","L","i","m","i","t">>,
    <<"m","i","n","R","e","a","d","y","S","e","c","o","n","d","s">>, <<"w","e","i","g","h","t">>, <<"p","r","i","o","r","i","t","y">> }

\* the field sets below are sequences in insertion order, the order forEach
\* visits them in
METADATA_FIELDS == << <<"n","a","m","e">>, <<"n","a","m","e","s","p","a","c","e">>, <<"l","a","b","e","l","s">>, <<"a","n","n","o","t","a","t","i","o","n","s">>, <<"g","e","n","e","r","a","t","e","N","a","m","e">> >>

SPEC_FIELDS ==
  << <<"r","e","p","l","i","c","a","s">>, <<"s","e","l","e","c","t","o","r">>, <<"t","e","m","p","l","a","t","e">>, <<"s","t","r","a","t","e","g","y">>, <<"m","i","n","R","e","a","d","y","S","e","c","o","n","d","s">>,
     <<"p","r","o","g","r","e","s","s","D","e","a","d","l","i","n","e","S","e","c","o","n","d","s">>, <<"r","e","v","i","s","i","o","n","H","i","s","t","o","r","y","L","i","m","i","t">> >>

POD_SPEC_FIELDS ==
  << <<"c","o","n","t","a","i","n","e","r","s">>, <<"i","n","i","t","C","o","n","t","a","i","n","e","r","s">>, <<"v","o","l","u","m","e","s">>, <<"r","e","s","t","a","r","t","P","o","l","i","c","y">>, <<"n","o","d","e","S","e","l","e","c","t","o","r">>,
     <<"a","f","f","i","n","i","t","y">>, <<"t","o","l","e","r","a","t","i","o","n","s">>, <<"s","e","r","v","i","c","e","A","c","c","o","u","n","t","N","a","m","e">>, <<"s","e","c","u","r","i","t","y","C","o","n","t","e","x","t">>,
     <<"h","o","s","t","N","e","t","w","o","r","k">>, <<"d","n","s","P","o","l","i","c","y">>, <<"i","m","a","g","e","P","u","l","l","S","e","c","r","e","t","s">> >>

\* the keys FIX 7 completes with a colon inside a list
LIST_CONTEXT_KEYS ==
  { <<"m","e","t","a","d","a","t","a">>, <<"s","p","e","c">>, <<"a","c","c","e","s","s","M","o","d","e","s">>, <<"v","o","l","u","m","e","M","o","u","n","t","s">>, <<"r","e","s","o","u","r","c","e","s">>, <<"r","e","q","u","e","s","t","s">>, <<"l","i","m","i","t","s">> }

WORD_TO_NUM ==
  { <<<<"o","n","e">>, <<"1">>>>, <<<<"t","w","o">>, <<"2">>>>, <<<<"t","h","r","e","e">>, <<"3">>>>, <<<<"f","o","u","r">>, <<"4">>>>, <<<<"f","i","v","e">>, <<"5">>>>,
    <<<<"s","i","x">>, <<"6">>>>, <<<<"s","e","v","e","n">>, <<"7">>>>, <<<<"e","i","g","h","t">>, <<"8">>>>, <<<<"n","i","n","e">>, <<"9">>>>, <<<<"t","e","n">>, <<"1","0">>>> }

\* YAMLFixer.indentSize: the constructor's default
indentSize == 2

\* table[k], the empty string standing for undefined
Lookup(table, k) ==
  IF \E p \in table : p[1] = k THEN (CHOOSE p \in table : p[1] = k)[2] ELSE <<>>

\* KEY_ALIASES[key.toLowerCase()] || KEY_ALIASES[key]
aliasOf(k) ==
  IF Lookup(KEY_ALIASES, toLowerCase(k)) /= <<>> THEN Lookup(KEY_ALIASES, toLowerCase(k))
  ELSE Lookup(KEY_ALIASES, k)

\* ------------------------------------------------------------------------
\* YAMLFixer: the regular expressions of phase 1
\* ------------------------------------------------------------------------
KeyChars == Lower \cup Upper \cup Digit \cup {"_", "-"}

ValueChars == KeyChars \cup {"/", ":", ".", "@", "=", "+"}

WsChars == {" ", "\t"}

\* length of the run of characters of S that starts at index i
RECURSIVE RunLen(_, _, _)
RunLen(s, i, S) == IF i <= Len(s) /\ s[i] \in S THEN 1 + RunLen(s, i + 1, S) ELSE 0

\* line.search(/\S/)
search(line) == IF LeadWs(line, 1) = Len(line) THEN -1 ELSE LeadWs(line, 1)

\* line.match(/^(\s*)/)[1]
indentOf(line) == SubSeq(line, 1, LeadWs(line, 1))

includesStr(s, p) == \E i \in 0..(Len(s) - Len(p)) : SubSeq(s, i + 1, i + Len(p)) = p

\* s.indexOf(p), 0-based, -1 when absent
indexOfStr(s, p) ==
  IF includesStr(s, p)
  THEN CHOOSE i \in 0..(Len(s) - Len(p)) :
         /\ SubSeq(s, i + 1, i + Len(p)) = p
         /\ \A j \in 0..(i - 1) : SubSeq(s, j + 1, j + Len(p)) /= p
  ELSE -1

\* line.replace(/\t/g, ' '.repeat(indentSize))
RECURSIVE replaceTabs(_)
replaceTabs(s) ==
  IF s = <<>> THEN <<>>
  ELSE (IF Head(s) = "\t" THEN repeat(" ", indentSize) ELSE <<Head(s)>>) \o replaceTabs(Tail(s))

countOf(s, c) == Cardinality({i \in 1..Len(s) : s[i] = c})

\* /^(\s*)([a-zA-Z0-9_-]+)\s+([a-zA-Z0-9_\/:.@=+-]+)$/
keyValueMatch(line) ==
  LET n == LeadWs(line, 1)
      k == RunLen(line, n + 1, KeyChars)
      w == RunLen(line, n + k + 1, WsChars)
      v == RunLen(line, n + k + w + 1, ValueChars)
  IN [ok |-> k >= 1 /\ w >= 1 /\ v >= 1 /\ n + k + w + v = Len(line),
      indent |-> SubSeq(line, 1, n),
      key |-> SubSeq(line, n + 1, n + k),
      value |-> SubSeq(line, n + k + w + 1, Len(line))]

\* /^(\s*)([a-zA-Z0-9_-]+):/ ; with a trailing \s when spaceAfter
keyColonMatch(line, spaceAfter) ==
  LET n == LeadWs(line, 1)
      k == RunLen(line, n + 1, KeyChars)
  IN [ok |-> /\ k >= 1
             /\ n + k + 1 <= Len(line)
             /\ line[n + k + 1] = ":"
             /\ spaceAfter => (n + k + 2 <= Len(line) /\ IsWs(line[n + k + 2])),
      indent |-> SubSeq(line, 1, n),
      key |-> SubSeq(line, n + 1, n + k)]

\* /^(\s*)-\s+(<chars>+)$/ : a dash, blanks, one word of the class to the end
dashWordMatch(line, chars) ==
  LET n == LeadWs(line, 1)
      w == RunLen(line, n + 2, WsChars)
      k == RunLen(line, n + w + 2, chars)
  IN [ok |-> /\ n + 1 <= Len(line) /\ line[n + 1] = "-"
             /\ w >= 1 /\ k >= 1 /\ n + 1 + w + k = Len(line),
      indent |-> SubSeq(line, 1, n),
      key |-> SubSeq(line, n + w + 2, Len(line))]

\* /^(\s*)-\s+([a-zA-Z0-9_-]+)\s+(.+)$/ on a line without trailing blanks
listItemMatch(line) ==
  LET n == LeadWs(line, 1)
      w == RunLen(line, n + 2, WsChars)
      k == RunLen(line, n + w + 2, KeyChars)
      x == RunLen(line, n + w + k + 2, WsChars)
  IN [ok |-> /\ n + 1 <= Len(line) /\ line[n + 1] = "-"
             /\ w >= 1 /\ k >= 1 /\ x >= 1 /\ n + 1 + w + k + x < Len(line),
      indent |-> SubSeq(line, 1, n),
      key |-> SubSeq(line, n + w + 2, n + w + k + 1),
      value |-> SubSeq(line, n + w + k + x + 2, Len(line))]

\* line.replace(/^(\s*)([^:\s]+):(?!\s)([^#\s].*)/, '$1$2: $3')
colonSpaceFix(line) ==
  LET n == LeadWs(line, 1)
      k == RunLen(line, n + 1, {line[i] : i \in 1..Len(line)} \ (WsChars \cup {":"}))
      c == n + k + 1
  IN IF /\ k >= 1 /\ c + 1 <= Len(line) /\ line[c] = ":"
        /\ ~IsWs(line[c + 1]) /\ line[c + 1] /= "#"
     THEN SubSeq(line, 1, c) \o <<" ">> \o SubSeq(line, c + 1, Len(line))
     ELSE line

\* /^[ -]*([a-zA-Z0-9_-]+):/ : the dash belongs to both classes, so the
\* prefix gives one dash back when the colon follows it directly
keyExtract(line) ==
  LET p == RunLen(line, 1, {" ", "-"})
      k == RunLen(line, p + 1, KeyChars)
  IN IF k >= 1
     THEN [ok |-> p + k + 1 <= Len(line) /\ line[p + k + 1] = ":",
           key |-> SubSeq(line, p + 1, p + k)]
     ELSE [ok |-> /\ p >= 1 /\ line[p] = "-"
                  /\ p + 1 <= Len(line) /\ line[p + 1] = ":",
           key |-> <<"-">>]

\* ------------------------------------------------------------------------
\* YAMLFixer.phase1_syntaxNormalization.  The state of the loop is a record:
\* normalizedLines, changes, inBlockScalar, inConfigMapData, configMapIndent,
\* seenKeys (pairs <<column, key>>), lastIndent, and for the line at hand
\* line, updatedTrimmed, matched (keyValueMatch is not null) and dropped
\* (the line is not pushed).
\* ------------------------------------------------------------------------
Change(type, lineNo, original, fixed, severity) ==
  [type |-> type, line |-> lineNo, original |-> original, fixed |-> fixed, severity |-> severity]

\* line = fixed; changes.push(...)
Rewrite(r, type, i, original, fixed, severity) ==
  [r EXCEPT !.line = fixed,
            !.changes = Append(@, Change(type, i, original, fixed, severity))]

\* 1. tabs to spaces, 2. trailing whitespace
convertTabs(r, i, original) ==
  LET r1 == IF includes(r.line, "\t")
            THEN Rewrite(r, "INDENT", i, original, replaceTabs(r.line), "warning")
            ELSE r
  IN [r1 EXCEPT !.line = trimRight(@)]

\* FIX 6: ConfigMap data nesting
fixConfigMapData(r, lines, i, original) ==
  LET trimmed == trim(original)
      near(k) == k >= 1 /\ includesStr(lines[k], <<"C","o","n","f","i","g","M","a","p">>)
  IN IF trimmed = <<"d","a","t","a",":">> /\ (near(i - 1) \/ near(i - 2))
     THEN [r EXCEPT !.inConfigMapData = TRUE, !.configMapIndent = search(r.line)]
     ELSE IF r.inConfigMapData
     THEN IF startsWith(trimmed, <<"-","-","-">>) \/ (search(r.line) <= r.configMapIndent /\ trimmed /= <<>>)
          THEN [r EXCEPT !.inConfigMapData = FALSE]
          ELSE IF search(r.line) <= r.configMapIndent
               THEN Rewrite(r, "INDENT", i, original,
                            repeat(" ", r.configMapIndent + indentSize) \o trimmed, "error")
               ELSE r
     ELSE r

\* FIX 4: a property under-indented relative to the list item above it
fixUnderIndent(r, i, original) ==
  IF Len(r.normalizedLines) = 0 THEN r
  ELSE LET prevLine == r.normalizedLines[Len(r.normalizedLines)]
           prevTrimmed == trim(prevLine)
           prevDashPos == indexOf(prevLine, "-")
           currentIndent == search(r.line)
           expectedIndent == prevDashPos + 2
           trimmed == trim(original)
       IN IF /\ startsWith(prevTrimmed, <<"-", " ">>) /\ includes(prevTrimmed, ":")
             /\ includes(trimmed, ":")
             /\ currentIndent < expectedIndent /\ currentIndent > prevDashPos
          THEN Rewrite(r, "INDENT", i, original, repeat(" ", expectedIndent) \o trimmed, "error")
          ELSE r

\* FIX 1: `key value` without a colon
fixMissingColon(r, i, original) ==
  LET m == keyValueMatch(r.line)
      r1 == [r EXCEPT !.matched = m.ok]
  IN IF m.ok /\ ~startsWith(trim(r.line), <<"-">>) /\ ~keyColonMatch(r.line, TRUE).ok
     THEN Rewrite(r1, "COLON", i, original, m.indent \o m.key \o <<":", " ">> \o m.value, "critical")
     ELSE r1

\* FIX 3: `- DATABASE_HOST` followed by a `value:` line
fixOrphanedListItem(r, lines, i, original) ==
  LET m == dashWordMatch(r.line, Upper \cup Digit \cup {"_"})
  IN IF m.ok /\ i < Len(lines) /\ startsWith(trim(lines[i + 1]), <<"v","a","l","u","e",":">>)
     THEN Rewrite(r, "STRUCTURE", i, original, m.indent \o <<"-"," ","n","a","m","e",":"," ">> \o m.key, "error")
     ELSE r

\* FIX 7: `- metadata` inside a list
fixListContextColon(r, i, original) ==
  LET currentTrimmed == trim(r.line)
      m == dashWordMatch(currentTrimmed, KeyChars)
  IN IF /\ startsWith(currentTrimmed, <<"-", " ">>) /\ ~includes(currentTrimmed, ":")
        /\ m.ok /\ m.key \in LIST_CONTEXT_KEYS
     THEN Rewrite(r, "COLON", i, original, indentOf(r.line) \o <<"-", " ">> \o m.key \o <<":">>, "critical")
     ELSE r

\* 3. missing colon after a known key
fixKnownKeyColon(r, i, original) ==
  LET currentTrimmed == trim(r.line)
      parts == splitWs(currentTrimmed)
      potentialKey == parts[1]
      correctKey == IF aliasOf(potentialKey) /= <<>> THEN aliasOf(potentialKey) ELSE potentialKey
  IN IF /\ ~keyColonMatch(currentTrimmed, FALSE).ok
        /\ ~startsWith(currentTrimmed, <<"-">>) /\ ~startsWith(currentTrimmed, <<"#">>)
        /\ (correctKey \in KNOWN_K8S_KEYS \/ potentialKey \in KNOWN_K8S_KEYS)
     THEN IF Len(parts) = 1
          THEN Rewrite(r, "COLON", i, original, indentOf(r.line) \o correctKey \o <<":">>, "critical")
          ELSE IF ~r.matched
               THEN Rewrite(r, "COLON", i, original,
                            indentOf(r.line) \o correctKey \o <<":", " ">> \o joinSpace(Tail(parts)),
                            "critical")
               ELSE r
     ELSE r

\* 4. missing space after the colon; the change records the line as it was
\* before this step
fixColonSpace(r, i) ==
  LET r1 == [r EXCEPT !.updatedTrimmed = trim(r.line)]
  IN IF /\ includes(r1.updatedTrimmed, ":") /\ ~includesStr(r1.updatedTrimmed, <<":","/","/">>)
        /\ colonSpaceFix(r.line) /= r.line
     THEN Rewrite(r1, "COLON", i, r.line, colonSpaceFix(r.line), "info")
     ELSE r1

\* 5. `-item`: rebuilt from updatedTrimmed, the line as it was before step 4
fixListSpacing(r, i, original) ==
  LET u == r.updatedTrimmed
  IN IF startsWith(u, <<"-">>) /\ Len(u) > 1 /\ u[2] /= " " /\ u[2] /= "-"
     THEN Rewrite(r, "LIST", i, original, indentOf(r.line) \o <<"-", " ">> \o substring(u, 1), "info")
     ELSE r

\* 6. `- name nginx`
fixListItemColon(r, i, original) ==
  LET m == listItemMatch(r.line)
      correctKey == IF aliasOf(m.key) /= <<>> THEN aliasOf(m.key) ELSE m.key
  IN IF /\ m.ok /\ ~includes(r.line, ":")
        /\ (correctKey \in KNOWN_K8S_KEYS \/ m.key \in KNOWN_K8S_KEYS)
     THEN Rewrite(r, "COLON", i, original,
                  m.indent \o <<"-", " ">> \o correctKey \o <<":", " ">> \o m.value, "critical")
     ELSE r

\* 7. common key typos
fixKeyTypo(r, i, original) ==
  LET m == keyColonMatch(r.line, FALSE)
      correctKey == aliasOf(m.key)
  IN IF m.ok /\ correctKey /= <<>> /\ correctKey /= m.key
     THEN Rewrite(r, "KEY_FIX", i, original,
                  m.indent \o correctKey \o SubSeq(r.line, Len(m.indent) + Len(m.key) + 1, Len(r.line)),
                  "warning")
     ELSE r

\* 8. unclosed quotes
closeQuotes(r, i, original) ==
  LET r1 == IF countOf(r.line, "\"") % 2 /= 0
            THEN Rewrite(r, "QUOTE", i, original, Append(r.line, "\""), "critical")
            ELSE r
  IN IF countOf(r.line, "'") % 2 /= 0
     THEN Rewrite(r1, "QUOTE", i, original, Append(r1.line, "'"), "critical")
     ELSE r1

\* FIX 5: duplicate key removal
removeDuplicateKey(r, i, original) ==
  LET currentIndent == search(r.line)
      afterDedent == IF currentIndent < r.lastIndent
                     THEN {p \in r.seenKeys : ~(p[1] > currentIndent)}
                     ELSE r.seenKeys
      afterItem == IF startsWith(r.updatedTrimmed, <<"-", " ">>)
                   THEN {p \in afterDedent : ~(p[1] >= currentIndent)}
                   ELSE afterDedent
      m == keyExtract(r.line)
      keyStart == indexOfStr(r.line, m.key)
  IN IF currentIndent = -1 THEN r
     ELSE IF startsWith(r.line, <<"-","-","-">>)
     THEN [r EXCEPT !.seenKeys = {}, !.lastIndent = 0]
     ELSE IF m.ok /\ <<keyStart, m.key>> \in afterItem
     THEN [r EXCEPT !.seenKeys = afterItem, !.dropped = TRUE,
                    !.changes = Append(@, Change("DUPLICATE", i, original, <<>>, "error"))]
     ELSE [r EXCEPT !.seenKeys = IF m.ok THEN afterItem \cup {<<keyStart, m.key>>} ELSE afterItem,
                    !.lastIndent = currentIndent]

\* the steps of the loop body, in the order of the source
normalizeStep(n, r, lines, i) ==
  CASE n = 1 -> convertTabs(r, i, lines[i])
    [] n = 2 -> fixConfigMapData(r, lines, i, lines[i])
    [] n = 3 -> fixUnderIndent(r, i, lines[i])
    [] n = 4 -> fixMissingColon(r, i, lines[i])
    [] n = 5 -> fixOrphanedListItem(r, lines, i, lines[i])
    [] n = 6 -> fixListContextColon(r, i, lines[i])
    [] n = 7 -> fixKnownKeyColon(r, i, lines[i])
    [] n = 8 -> fixColonSpace(r, i)
    [] n = 9 -> fixListSpacing(r, i, lines[i])
    [] n = 10 -> fixListItemColon(r, i, lines[i])
    [] n = 11 -> fixKeyTypo(r, i, lines[i])
    [] n = 12 -> closeQuotes(r, i, lines[i])
    [] OTHER -> removeDuplicateKey(r, i, lines[i])

RECURSIVE normalizeSteps(_, _, _, _)
normalizeSteps(n, r, lines, i) ==
  IF n > 13 \/ r.dropped THEN r ELSE normalizeSteps(n + 1, normalizeStep(n, r, lines, i), lines, i)

\* the head of the loop body: `let line = lines[i]` and the block-scalar flag
enterLine(r, original) ==
  [r EXCEPT !.line = original, !.dropped = FALSE, !.matched = FALSE,
            !.inBlockScalar =
               IF endsWith(trim(original), <<"|">>) \/ endsWith(trim(original), <<">">>) THEN TRUE
               ELSE IF @ /\ trim(original) /= <<>> /\ ~startsWith(original, <<" ">>) THEN FALSE
               ELSE @]

\* lines inside a block scalar, blank lines and comments skip the steps
throughSteps(r, lines, i) ==
  IF \/ r.inBlockScalar /\ i > 1
     \/ trim(lines[i]) = <<>>
     \/ startsWith(trim(lines[i]), <<"#">>)
  THEN r
  ELSE normalizeSteps(1, r, lines, i)

\* normalizedLines.push(line), unless the line was removed as a duplicate
pushLine(r) == IF r.dropped THEN r ELSE [r EXCEPT !.normalizedLines = Append(@, r.line)]

\* one pass of the loop body
normalizeLine(r, lines, i) == pushLine(throughSteps(enterLine(r, lines[i]), lines, i))

\* the state of the loop after the first i lines
RECURSIVE phase1Loop(_, _)
phase1Loop(lines, i) ==
  IF i = 0
  THEN [normalizedLines |-> <<>>, changes |-> <<>>, inBlockScalar |-> FALSE,
        inConfigMapData |-> FALSE, configMapIndent |-> 0, seenKeys |-> {},
        lastIndent |-> 0, line |-> <<>>, updatedTrimmed |-> <<>>,
        matched |-> FALSE, dropped |-> FALSE]
  ELSE normalizeLine(phase1Loop(lines, i - 1), lines, i)

\* the record the phase returns
phase1Result(r) == [lines |-> r.normalizedLines, changes |-> r.changes]

phase1_syntaxNormalization(content) == phase1Result(phase1Loop(content, Len(content)))

\* ------------------------------------------------------------------------
\* YAMLFixer: documents as js-yaml builds and dumps them.  A value is a
\* scalar (a plain word), null, undefined, a mapping (its entries in
\* insertion order) or a sequence.
\* ------------------------------------------------------------------------
Scalar(s) == [t |-> "scalar", s |-> s]

Null == [t |-> "null"]

Undefined == [t |-> "undefined"]

MapOf(entries) == [t |-> "map", e |-> entries]

SeqOf(items) == [t |-> "seq", e |-> items]

\* a string as yaml.dump writes it: in single quotes where the plain word
\* would be read back as a number, a boolean or null
QuotedString(s) ==
  IF s = <<>> \/ AllIn(s, 1, Digit)
     \/ toLowerCase(s) \in {<<"n","u","l","l">>, <<"t","r","u","e">>, <<"f","a","l","s","e">>}
  THEN Scalar(<<"'">> \o s \o <<"'">>)
  ELSE Scalar(s)

\* the plain word as the core schema resolves it; a double-quoted word is a
\* string.  A scalar is held as the text yaml.dump writes for it.
Resolve(word) ==
  IF Len(word) >= 2 /\ word[1] = "\"" /\ word[Len(word)] = "\""
  THEN QuotedString(SubSeq(word, 2, Len(word) - 1))
  ELSE IF word \in {<<"n","u","l","l">>, <<"N","u","l","l">>, <<"N","U","L","L">>} THEN Null
  ELSE IF word \in {<<"t","r","u","e">>, <<"T","r","u","e">>, <<"T","R","U","E">>} THEN Scalar(<<"t","r","u","e">>)
  ELSE IF word \in {<<"f","a","l","s","e">>, <<"F","a","l","s","e">>, <<"F","A","L","S","E">>} THEN Scalar(<<"f","a","l","s","e">>)
  ELSE Scalar(word)

\* JavaScript truthiness
Truthy(v) == v.t \in {"map", "seq"} \/ (v.t = "scalar" /\ v.s \notin {<<"f","a","l","s","e">>, <<"0">>, <<"'", "'">>})

\* v[k]: a property read; on anything but a mapping the keys of a document
\* are undefined
Get(v, k) ==
  IF v.t = "map" /\ \E i \in 1..Len(v.e) : v.e[i].k = k
  THEN v.e[CHOOSE i \in 1..Len(v.e) : v.e[i].k = k].v
  ELSE Undefined

RECURSIVE GetPath(_, _)
GetPath(v, path) == IF path = <<>> THEN v ELSE GetPath(Get(v, Head(path)), Tail(path))

\* m[k] = x on a mapping: an existing key keeps its place
Put(m, k, x) ==
  IF \E i \in 1..Len(m.e) : m.e[i].k = k
  THEN MapOf([i \in 1..Len(m.e) |-> IF m.e[i].k = k THEN [k |-> k, v |-> x] ELSE m.e[i]])
  ELSE MapOf(Append(m.e, [k |-> k, v |-> x]))

\* delete m[k]
Del(m, k) == LET Other(en) == en.k /= k IN MapOf(SelectSeq(m.e, Other))

RECURSIVE PutPath(_, _, _)
PutPath(v, path, x) ==
  IF path = <<>> THEN x ELSE Put(v, Head(path), PutPath(Get(v, Head(path)), Tail(path), x))

\* `- word` after the indent
IsDashWord(line) ==
  LET body == trim(line)
  IN Len(body) >= 3 /\ body[1] = "-" /\ body[2] = " " /\ AllIn(body, 3, NameChars)

ValueOf(line) == LET body == trim(line) IN substring(body, indexOf(body, ":") + 2)

\* the lines of text after line i that belong to the parent key on line i,
\* whose column is c: up to the next line at column c or less that is not a
\* list dash at column c
RECURSIVE ChildrenOf(_, _, _)
ChildrenOf(text, i, c) ==
  IF i > Len(text) THEN {}
  ELSE IF trim(text[i]) = <<>> THEN ChildrenOf(text, i + 1, c)
  ELSE IF getIndent(text[i]) > c \/ (getIndent(text[i]) = c /\ IsDashWord(text[i]))
       THEN {i} \cup ChildrenOf(text, i + 1, c)
       ELSE {}

RECURSIVE InOrder(_, _, _, _)
InOrder(Op(_), text, S, i) ==
  IF i > Len(text) THEN <<>>
  ELSE (IF i \in S THEN <<Op(text[i])>> ELSE <<>>) \o InOrder(Op, text, S, i + 1)

\* `key: "word"` after the indent, key and word plain alphanumeric
IsQuotedPair(line) ==
  LET body == trim(line)
      c == indexOf(body, ":")
  IN /\ c >= 1
     /\ Len(body) >= c + 4
     /\ \A i \in 1..c : body[i] \in NameChars
     /\ body[c + 2] = " "
     /\ body[c + 3] = "\"" /\ body[Len(body)] = "\""
     /\ \A i \in (c + 4)..(Len(body) - 1) : body[i] \in NameChars

IsPair(line) == IsPlainPair(line) \/ IsQuotedPair(line)

PairEntry(line) == [k |-> KeyOf(line), v |-> Resolve(ValueOf(line))]

DashItem(line) == Resolve(substring(trim(line), 2))

NoTabs(text, S) == \A i \in S : ~includes(text[i], "\t")

SameIndent(text, S) == \A i, j \in S : getIndent(text[i]) = getIndent(text[j])

\* the value under a parent key: nothing (null), plain pairs at one deeper
\* column (a mapping), or dash words at one column (a sequence)
LoadChildren(text, S) ==
  IF S = {} THEN [status |-> "ok", value |-> Null]
  ELSE IF ~(NoTabs(text, S) /\ SameIndent(text, S)) THEN [status |-> "other"]
  ELSE IF \A i \in S : IsDashWord(text[i])
       THEN [status |-> "ok", value |-> SeqOf(InOrder(DashItem, text, S, 1))]
  ELSE IF \A i \in S : IsPair(text[i])
       THEN IF \E i, j \in S : i < j /\ KeyOf(text[i]) = KeyOf(text[j])
            THEN [status |-> "duplicate"]
            ELSE [status |-> "ok", value |-> MapOf(InOrder(PairEntry, text, S, 1))]
  ELSE [status |-> "other"]

\* the entries of a block mapping whose keys sit at column c, from line i on
RECURSIVE LoadEntries(_, _, _, _)
LoadEntries(text, i, c, acc) ==
  IF i > Len(text) THEN [status |-> "ok", value |-> MapOf(acc)]
  ELSE IF trim(text[i]) = <<>> THEN LoadEntries(text, i + 1, c, acc)
  ELSE IF getIndent(text[i]) /= c \/ includes(text[i], "\t") THEN [status |-> "other"]
  ELSE IF IsPair(text[i])
       THEN IF \E n \in 1..Len(acc) : acc[n].k = KeyOf(text[i])
            THEN [status |-> "duplicate"]
            ELSE LoadEntries(text, i + 1, c, Append(acc, PairEntry(text[i])))
  ELSE IF IsPlainParent(text[i])
       THEN LET S == ChildrenOf(text, i + 1, c)
                child == LoadChildren(text, S)
                next == IF S = {} THEN i + 1 ELSE 1 + CHOOSE j \in S : \A k \in S : k <= j
            IN IF child.status /= "ok" THEN child
               ELSE IF \E n \in 1..Len(acc) : acc[n].k = KeyOf(text[i])
                    THEN [status |-> "duplicate"]
                    ELSE LoadEntries(text, next, c, Append(acc, [k |-> KeyOf(text[i]), v |-> child.value]))
  ELSE [status |-> "other"]

\* yaml.loadAll(content), then `documents.length === 1 ? documents[0] :
\* documents`, for the texts whose reading is certain: a text of blank lines
\* holds no document, a text of dash words is one sequence, a text of pairs
\* and parent keys is one mapping.  "duplicate" is a mapping that repeats a
\* key, which js-yaml rejects; "other" is any other text.
Load(text) ==
  LET nb == NonBlank(text)
  IN IF nb = {} THEN [status |-> "ok", value |-> SeqOf(<<>>)]
     ELSE IF \A i \in nb : IsDashWord(text[i])
     THEN IF NoTabs(text, nb) /\ SameIndent(text, nb)
          THEN [status |-> "ok", value |-> SeqOf(InOrder(DashItem, text, nb, 1))]
          ELSE [status |-> "other"]
     ELSE LoadEntries(text, 1, getIndent(text[FirstOf(nb)]), <<>>)

\* the answers of the parser for YAMLFixer: the document where the reading
\* is certain, the error where the rejection is, either otherwise (the
\* document is then not known)
LoadAnswers(text) ==
  IF Load(text).status = "ok"
  THEN {[ok |-> TRUE, known |-> TRUE, parsed |-> Load(text).value, mark |-> ParseOk]}
  ELSE IF Load(text).status = "duplicate" \/ PlainlyInvalid(text)
  THEN {[ok |-> FALSE, known |-> FALSE, parsed |-> Undefined, mark |-> ParseError(text)]}
  ELSE {[ok |-> FALSE, known |-> FALSE, parsed |-> Undefined, mark |-> ParseError(text)],
        [ok |-> TRUE, known |-> FALSE, parsed |-> Undefined, mark |-> ParseOk]}

\* yaml.dump of a scalar
dumpScalar(v) == IF v.t = "null" THEN <<"n","u","l","l">> ELSE v.s

\* yaml.dump(doc, {indent: indentSize}) as lines, without the final newline;
\* the items of a sequence are scalars
RECURSIVE dump(_, _)
dump(v, indent) ==
  LET pad == repeat(" ", indent)
      entryLines(en) ==
        IF en.v.t \in {"scalar", "null"} THEN << pad \o en.k \o <<":", " ">> \o dumpScalar(en.v) >>
        ELSE IF en.v.e = <<>>
             THEN << pad \o en.k \o <<":", " ">> \o (IF en.v.t = "map" THEN <<"{","}">> ELSE <<"[","]">>) >>
             ELSE << pad \o en.k \o <<":">> >> \o dump(en.v, indent + indentSize)
      RECURSIVE entries(_)
      entries(n) == IF n > Len(v.e) THEN <<>> ELSE entryLines(v.e[n]) \o entries(n + 1)
  IN IF v.t \in {"scalar", "null"} THEN << pad \o dumpScalar(v) >>
     ELSE IF v.e = <<>> THEN << pad \o (IF v.t = "map" THEN <<"{","}">> ELSE <<"[","]">>) >>
     ELSE IF v.t = "seq" THEN [n \in 1..Len(v.e) |-> pad \o <<"-", " ">> \o dumpScalar(v.e[n])]
     ELSE entries(1)

\* ------------------------------------------------------------------------
\* YAMLFixer: phases 2, 3 and 3b
\* ------------------------------------------------------------------------
phase2_parseValidation(ans) ==
  IF ans.ok THEN [valid |-> TRUE, errors |-> <<>>, parsed |-> ans.parsed]
  ELSE [valid |-> FALSE, parsed |-> Undefined,
        errors |-> << [line |-> ans.mark.line + 1, column |-> ans.mark.column + 1,
                       severity |-> "critical", code |-> "YAML_PARSE_ERROR",
                       fixable |-> FALSE] >>]

\* value.replace(/['"]/g, '')
RECURSIVE stripQuotes(_)
stripQuotes(s) ==
  IF s = <<>> THEN <<>>
  ELSE (IF Head(s) \in {"'", "\""} THEN <<>> ELSE <<Head(s)>>) \o stripQuotes(Tail(s))

\* !isNaN(Number(s)) && s !== '' for decimal integer literals
IsNumber(s) == s /= <<>> /\ AllIn(s, 1, Digit)

\* FIX 2 on one line: the value of a numeric field without its quotes, or
\* the number a number word stands for
numericFix(line, i) ==
  LET trimmed == trim(line)
      m == keyColonMatch(trimmed, FALSE)
      value == substring(trimmed, Len(m.key) + 1 + RunLen(trimmed, Len(m.key) + 2, WsChars))
      cleanValue == trim(stripQuotes(value))
      rebuilt(v) == repeat(" ", LeadWs(line, 1)) \o m.key \o <<":", " ">> \o v
  IN IF trimmed = <<>> \/ startsWith(trimmed, <<"#">>) \/ ~m.ok \/ value = <<>>
        \/ m.key \notin NUMERIC_FIELDS
     THEN [line |-> line, changes |-> <<>>]
     ELSE IF IsNumber(cleanValue)
     THEN IF includes(value, "\"") \/ includes(value, "'")
          THEN [line |-> rebuilt(cleanValue),
                changes |-> << Change("NUMERIC", i, line, rebuilt(cleanValue), "info") >>]
          ELSE [line |-> line, changes |-> <<>>]
     ELSE IF Lookup(WORD_TO_NUM, toLowerCase(cleanValue)) /= <<>>
     THEN [line |-> rebuilt(Lookup(WORD_TO_NUM, toLowerCase(cleanValue))),
           changes |-> << Change("NUMERIC", i, line,
                                 rebuilt(Lookup(WORD_TO_NUM, toLowerCase(cleanValue))), "warning") >>]
     ELSE [line |-> line, changes |-> <<>>]

RECURSIVE phase3_semanticFixes(_, _)
phase3_semanticFixes(lines, i) ==
  IF i > Len(lines) THEN [lines |-> <<>>, changes |-> <<>>]
  ELSE LET here == numericFix(lines[i], i)
           rest == phase3_semanticFixes(lines, i + 1)
       IN [lines |-> <<here.line>> \o rest.lines, changes |-> here.changes \o rest.changes]

\* The structural pass works on a record: the document, whether a TypeError
\* was thrown, and the number of sentences of the explanation.
EmptyMap == MapOf(<<>>)

NewTemplate == MapOf(<< [k |-> kMetadata, v |-> EmptyMap], [k |-> kSpec, v |-> EmptyMap] >>)

\* parsed.<path>[k] = x.  The methods of a class are strict code: creating a
\* property on a string, number or boolean, or on undefined or null, throws
\* a TypeError.  A named property put on an array is not part of what dump
\* writes.
setProp(st, path, k, x) ==
  LET target == GetPath(st.doc, path)
  IN IF st.threw THEN st
     ELSE IF target.t = "map" THEN [st EXCEPT !.doc = PutPath(st.doc, path, Put(target, k, x))]
     ELSE IF target.t = "seq" THEN st
     ELSE [st EXCEPT !.threw = TRUE]

\* if (!parsed.<path>[k]) parsed.<path>[k] = fresh
ensure(st, path, k, fresh) ==
  IF st.threw \/ Truthy(GetPath(st.doc, path \o <<k>>)) THEN st ELSE setProp(st, path, k, fresh)

\* delete parsed.<from>[field]; explanation += ...
dropMoved(st, from, field) ==
  IF st.threw THEN st
  ELSE [st EXCEPT !.doc = PutPath(st.doc, from, Del(GetPath(st.doc, from), field)),
                  !.explanation = @ + 1]

\* parsed.<to>[field] = parsed.<from>[field], then the delete
move(st, from, to, field) ==
  dropMoved(setProp(st, to, field, GetPath(st.doc, from \o <<field>>)), from, field)

\* steps 1, 2 and 5: the fields found at the root go under `target`
RECURSIVE moveRootFields(_, _, _)
moveRootFields(st, fields, target) ==
  IF fields = <<>> \/ st.threw THEN st
  ELSE moveRootFields(
         IF Get(st.doc, Head(fields)) = Undefined THEN st
         ELSE move(ensure(st, <<>>, target, EmptyMap), <<>>, <<target>>, Head(fields)),
         Tail(fields), target)

\* if (!parsed.<path>[k]) { parsed.<path>[k] = fresh; explanation += ... }
ensureNoted(st, path, k, fresh) ==
  IF st.threw \/ Truthy(GetPath(st.doc, path \o <<k>>)) THEN st
  ELSE LET s == setProp(st, path, k, fresh)
       IN IF s.threw THEN s ELSE [s EXCEPT !.explanation = @ + 1]

\* step 3: spec.template with its metadata and spec
ensureTemplate(st) ==
  IF st.threw \/ ~Truthy(Get(st.doc, kSpec)) THEN st
  ELSE IF ~Truthy(GetPath(st.doc, <<kSpec, <<"t","e","m","p","l","a","t","e">>>>))
  THEN ensureNoted(st, <<kSpec>>, <<"t","e","m","p","l","a","t","e">>, NewTemplate)
  ELSE ensureNoted(ensureNoted(st, <<kSpec, <<"t","e","m","p","l","a","t","e">>>>, kMetadata, EmptyMap),
                   <<kSpec, <<"t","e","m","p","l","a","t","e">>>>, kSpec, EmptyMap)

\* if (!parsed.spec.template) ...; if (!parsed.spec.template.spec) ...
ensurePodSpec(st) ==
  ensure(ensure(st, <<kSpec>>, <<"t","e","m","p","l","a","t","e">>, NewTemplate), <<kSpec, <<"t","e","m","p","l","a","t","e">>>>, kSpec, EmptyMap)

\* step 4 for one field: from the root, or from spec, to spec.template.spec
movePodSpecField(st, field) ==
  IF Get(st.doc, field) /= Undefined
  THEN move(ensurePodSpec(ensure(st, <<>>, kSpec, EmptyMap)), <<>>, <<kSpec, <<"t","e","m","p","l","a","t","e">>, kSpec>>, field)
  ELSE IF /\ Truthy(Get(st.doc, kSpec))
          /\ GetPath(st.doc, <<kSpec, field>>) /= Undefined
          /\ field /= <<"s","e","l","e","c","t","o","r">>
       THEN move(ensurePodSpec(st), <<kSpec>>, <<kSpec, <<"t","e","m","p","l","a","t","e">>, kSpec>>, field)
       ELSE st

RECURSIVE movePodSpecFields(_, _)
movePodSpecFields(st, fields) ==
  IF fields = <<>> \/ st.threw THEN st
  ELSE movePodSpecFields(movePodSpecField(st, Head(fields)), Tail(fields))

\* steps 2 to 4, for the workload kinds
workloadFields(st) ==
  IF st.threw THEN st
  ELSE IF Get(st.doc, kKind) \in {Scalar(<<"D","e","p","l","o","y","m","e","n","t">>), Scalar(<<"S","t","a","t","e","f","u","l","S","e","t">>), Scalar(<<"D","a","e","m","o","n","S","e","t">>)}
       THEN movePodSpecFields(ensureTemplate(moveRootFields(st, SPEC_FIELDS, kSpec)), POD_SPEC_FIELDS)
       ELSE st

\* step 5, for a Service
serviceFields(st) ==
  IF ~st.threw /\ Get(st.doc, kKind) = Scalar(<<"S","e","r","v","i","c","e">>)
  THEN moveRootFields(st, << kType, <<"p","o","r","t","s">> >>, kSpec)
  ELSE st

fixSingleDocument(parsed) ==
  IF ~Truthy(parsed) \/ parsed.t \notin {"map", "seq"}
  THEN [doc |-> parsed, threw |-> FALSE, explanation |-> 0]
  ELSE serviceFields(workloadFields(
         moveRootFields([doc |-> parsed, threw |-> FALSE, explanation |-> 0],
                        METADATA_FIELDS, kMetadata)))

RECURSIVE fixEach(_)
fixEach(docs) ==
  IF docs = <<>> THEN <<>> ELSE <<fixSingleDocument(Head(docs))>> \o fixEach(Tail(docs))

\* the dumps of the fixed documents, joined by '---\n', split into lines
RECURSIVE joinDumps(_)
joinDumps(results) ==
  IF results = <<>> THEN << <<>> >>
  ELSE IF Len(results) = 1 THEN Append(dump(results[1].doc, 0), <<>>)
  ELSE dump(results[1].doc, 0) \o << <<"-","-","-">> >> \o joinDumps(Tail(results))

RECURSIVE SumExplanations(_)
SumExplanations(results) ==
  IF results = <<>> THEN 0 ELSE Head(results).explanation + SumExplanations(Tail(results))

\* what phase 3b returns for the fixed documents: content is the dumped
\* text as lines; changed says the explanation is not 'No structural
\* changes needed'
structuralResult(results) ==
  IF \E n \in 1..Len(results) : results[n].threw
  THEN [threw |-> TRUE, content |-> <<>>, changed |-> FALSE]
  ELSE [threw |-> FALSE, content |-> joinDumps(results), changed |-> SumExplanations(results) > 0]

\* an array is taken for the documents of a stream
phase3b_structuralFixes(parsed) ==
  IF parsed.t = "seq" THEN structuralResult(fixEach(parsed.e))
  ELSE structuralResult(<< fixSingleDocument(parsed) >>)

\* the result fix returns
returned(text, changes, errors) ==
  [threw |-> FALSE, content |-> text, fixedCount |-> Len(changes),
   changes |-> changes, errors |-> errors]

\* fix left by an exception
thrown == [threw |-> TRUE, content |-> <<>>, fixedCount |-> 0, changes |-> <<>>, errors |-> <<>>]

\* phase 3b inside fix.  There is no try around the phases: a TypeError of
\* the structural pass leaves fix as an exception.
fixAggressive(allChanges, structural) ==
  IF structural.threw THEN thrown
  ELSE returned(structural.content,
                IF structural.changed
                THEN Append(allChanges, Change("STRUCTURE", 0, <<>>, <<>>, "warning"))
                ELSE allChanges,
                <<>>)

\* fix after a successful parse
fixParsed(phase1, phase3Result, aggressive, parsed) ==
  IF aggressive
  THEN fixAggressive(phase1.changes \o phase3Result.changes, phase3b_structuralFixes(parsed))
  ELSE returned(phase3Result.lines, phase1.changes \o phase3Result.changes, <<>>)

\* YAMLFixer.fix(content, {aggressive}) from the result of phase 1 on, given
\* the parser's answer for the text phase 1 leaves
fix(phase1, aggressive, ans) ==
  IF ~phase2_parseValidation(ans).valid
  THEN returned(phase1.lines, phase1.changes, phase2_parseValidation(ans).errors)
  ELSE fixParsed(phase1, phase3_semanticFixes(phase1.lines, 1), aggressive,
                 phase2_parseValidation(ans).parsed)

\* ------------------------------------------------------------------------
\* IndentationValidator (src/unnamed/part_003), fix with the default options:
\* style 'auto', mode 'all'
\* ------------------------------------------------------------------------
\* detectIndentationStyle: lines whose leading whitespace is a multiple of 4
\* against those where it is a multiple of 2
detectIndentationStyle(content) ==
  LET counts(n) == Cardinality({i \in 1..Len(content) :
                                  LeadWs(content[i], 1) > 0 /\ LeadWs(content[i], 1) % n = 0})
  IN IF counts(4) > counts(2) THEN 4 ELSE 2

\* line.replace(/\t/g, ' '.repeat(targetStyle))
RECURSIVE tabsToSpaces(_, _)
tabsToSpaces(s, targetStyle) ==
  IF s = <<>> THEN <<>>
  ELSE (IF Head(s) = "\t" THEN repeat(" ", targetStyle) ELSE <<Head(s)>>)
         \o tabsToSpaces(Tail(s), targetStyle)

\* the keys of step 1
k8sKeys ==
  { <<"m","e","t","a","d","a","t","a">>, <<"s","p","e","c">>, <<"s","t","a","t","u","s">>, <<"d","a","t","a">>, <<"l","a","b","e","l","s">>, <<"a","n","n","o","t","a","t","i","o","n","s">>, <<"s","e","l","e","c","t","o","r">>,
    <<"t","e","m","p","l","a","t","e">>, <<"c","o","n","t","a","i","n","e","r","s">>, <<"p","o","r","t","s">>, <<"e","n","v">>, <<"v","o","l","u","m","e","s">>, <<"v","o","l","u","m","e","m","o","u","n","t","s">>,
    <<"r","e","s","o","u","r","c","e","s">>, <<"l","i","m","i","t","s">>, <<"r","e","q","u","e","s","t","s">>, <<"r","u","l","e","s">>, <<"s","u","b","j","e","c","t","s">> }

\* 1. missing colon after a key: line.replace(trimmed, trimmed + ':'), which
\* finds trimmed in the line unless a tab inside it was expanded
missingColonAfterKey(line, trimmed, nextLine) ==
  IF /\ ~startsWith(trimmed, <<"#">>) /\ ~includes(trimmed, ":") /\ ~startsWith(trimmed, <<"-">>)
     /\ \/ (LeadWs(nextLine, 1) > LeadWs(line, 1) /\ trim(nextLine) /= <<>>)
        \/ \E key \in k8sKeys : includesStr(toLowerCase(trimmed), key)
     /\ includesStr(line, trimmed)
  THEN SubSeq(line, 1, indexOfStr(line, trimmed) + Len(trimmed)) \o <<":">>
         \o SubSeq(line, indexOfStr(line, trimmed) + Len(trimmed) + 1, Len(line))
  ELSE line

\* 2. colon spacing: /^(\s*[^\s:]+):(?!\s)(\S.*)/, the key not http or https
colonSpacing(line) ==
  LET n == LeadWs(line, 1)
      k == RunLen(line, n + 1, {line[i] : i \in 1..Len(line)} \ (WsChars \cup {":"}))
      c == n + k + 1
  IN IF /\ k >= 1 /\ c + 1 <= Len(line) /\ line[c] = ":" /\ ~IsWs(line[c + 1])
        /\ SubSeq(line, n + 1, n + k) \notin {<<"h","t","t","p">>, <<"h","t","t","p","s">>}
     THEN SubSeq(line, 1, c) \o <<" ">> \o SubSeq(line, c + 1, Len(line))
     ELSE line

\* 3. list item spacing: /^(\s*)-(?!\s)(\S.*)/
listSpacing(line) ==
  LET n == LeadWs(line, 1)
  IN IF n + 2 <= Len(line) /\ line[n + 1] = "-" /\ ~IsWs(line[n + 2])
     THEN SubSeq(line, 1, n + 1) \o <<" ">> \o SubSeq(line, n + 2, Len(line))
     ELSE line

\* 4. unclosed quotes: one closing quote, the double quote first, and none
\* when the line already ends in that quote
unclosedQuotes(line) ==
  IF countOf(line, "\"") % 2 /= 0 /\ ~endsWith(trim(line), <<"\"">>) THEN Append(line, "\"")
  ELSE IF countOf(line, "'") % 2 /= 0 /\ ~endsWith(trim(line), <<"'">>) THEN Append(line, "'")
  ELSE line

\* 5. missing list dash: a line with a colon at the indent of the dash line
\* before it
missingListDash(line, trimmed, prevLine) ==
  IF /\ startsWith(trim(prevLine), <<"-">>)
     /\ LeadWs(line, 1) = LeadWs(prevLine, 1)
     /\ includes(trimmed, ":") /\ ~startsWith(trimmed, <<"-">>)
  THEN SubSeq(line, 1, LeadWs(line, 1)) \o <<"-", " ">> \o SubSeq(line, LeadWs(line, 1) + 1, Len(line))
  ELSE line

\* the line as it enters the quote step of pass 1
syntaxFixesBeforeQuotes(lines, i, targetStyle) ==
  listSpacing(colonSpacing(missingColonAfterKey(
    trimRight(IF includes(lines[i], "\t") THEN tabsToSpaces(lines[i], targetStyle) ELSE lines[i]),
    trim(lines[i]),
    IF i + 1 <= Len(lines) THEN lines[i + 1] ELSE <<>>)))

\* pass 1 on line i; lines holds the lines before i as pass 1 left them
syntaxFixes(lines, i, targetStyle) ==
  IF trim(lines[i]) = <<>> THEN lines[i]
  ELSE IF i > 1
  THEN missingListDash(unclosedQuotes(syntaxFixesBeforeQuotes(lines, i, targetStyle)),
                       trim(lines[i]), lines[i - 1])
  ELSE unclosedQuotes(syntaxFixesBeforeQuotes(lines, i, targetStyle))

\* pass 1 over the first i lines
RECURSIVE pass1(_, _, _)
pass1(lines, i, targetStyle) ==
  IF i = 0 THEN lines
  ELSE LET done == pass1(lines, i - 1, targetStyle)
       IN IF Len(done) = 0 THEN done
          ELSE [done EXCEPT ![i] = syntaxFixes(done, i, targetStyle)]

\* Math.round(currentIndent / targetStyle) * targetStyle, at least targetStyle
snapIndent(currentIndent, targetStyle) ==
  IF currentIndent = 0 THEN 0
  ELSE IF ((2 * currentIndent + targetStyle) \div (2 * targetStyle)) * targetStyle = 0
  THEN targetStyle
  ELSE ((2 * currentIndent + targetStyle) \div (2 * targetStyle)) * targetStyle

\* pass 2: every line that is neither empty nor a comment is moved to the
\* nearest indent level
pass2(lines, targetStyle) ==
  [i \in 1..Len(lines) |->
     IF trim(lines[i]) = <<>> \/ startsWith(trim(lines[i]), <<"#">>) THEN lines[i]
     ELSE repeat(" ", snapIndent(LeadWs(lines[i], 1), targetStyle))
            \o SubSeq(lines[i], LeadWs(lines[i], 1) + 1, Len(lines[i]))]

\* IndentationValidator.fix(content): the lines of the returned content
IndentationValidator_fix(content) ==
  pass2(pass1(content, Len(content), detectIndentationStyle(content)),
        detectIndentationStyle(content))

VARIABLES
  doc,          \* the text the client wants repaired
  options,      \* IntelligentYAMLFixer.options
  pc,           \* "idle", or the await the running fix call is suspended at
  callInput,    \* fix: the yamlContent argument
  callOptions,  \* the options in effect when the running call started
  currentYaml,  \* fix: currentYaml
  iteration,    \* fix: iteration
  allFixes,     \* fix: allFixes
  iterLog,      \* history of the running call: one record per iteration
  last,         \* the most recent completed call and its result
  prev,         \* the completed call before it
  calls,        \* fix calls started
  sets,         \* setOptions calls made
  parserMemo,   \* answers the external parser has given
  yfix,         \* the YAMLFixer.fix call made and its outcome
  scan          \* the pass or scanner run on its own over doc, and its outcome

vars == <<doc, options, pc, callInput, callOptions, currentYaml, iteration, allFixes,
          iterLog, last, prev, calls, sets, parserMemo, yfix, scan>>

NoCall == [done |-> FALSE]

\* the answers the parser can give for a text, given what it answered before
Ask(text) ==
  IF \E m \in parserMemo : m.text = text
  THEN {m.ans : m \in {x \in parserMemo : x.text = text}}
  ELSE ParserAnswers(text)

\* constructor: defaults, then the aggressive lowering of the threshold
Construct(threshold, aggressive, maxIterations) ==
  [confidenceThreshold |-> IF aggressive THEN Min2(threshold, 60) ELSE threshold,
   aggressive |-> aggressive,
   maxIterations |-> maxIterations]

Init ==
  /\ doc \in Docs
  /\ \E t \in Thresholds, a \in BOOLEAN, m \in 1..MaxIter : options = Construct(t, a, m)
  /\ pc = "idle"
  /\ callInput = <<>>
  /\ callOptions = options
  /\ currentYaml = <<>>
  /\ iteration = 0
  /\ allFixes = <<>>
  /\ iterLog = <<>>
  /\ last = NoCall
  /\ prev = NoCall
  /\ calls = 0
  /\ sets = 0
  /\ parserMemo = {}
  /\ yfix = NoCall
  /\ scan = NoCall

\* The loop of fix with its test written `iteration <= maxIterations`: one
\* iteration more than the cap allows.
RunToAwaitOffByOne(yaml, iter, fixes, log) ==
  IF iter <= options.maxIterations
  THEN \E validFixes \in {iterationFixes(yaml, options)} :
          IF Len(validFixes) = 0
          THEN /\ pc' = "awaitFinal"
               /\ currentYaml' = yaml
               /\ iteration' = iter + 1
               /\ allFixes' = fixes
               /\ iterLog' = Append(log, [before |-> yaml, accepted |-> 0, after |-> yaml])
          ELSE /\ pc' = "awaitLoad"
               /\ currentYaml' = applyFixes(yaml, validFixes)
               /\ iteration' = iter + 1
               /\ allFixes' = fixes \o validFixes
               /\ iterLog' = Append(log, [before |-> yaml, accepted |-> Len(validFixes),
                                          after |-> applyFixes(yaml, validFixes)])
  ELSE /\ pc' = "awaitFinal"
       /\ currentYaml' = yaml
       /\ iteration' = iter
       /\ allFixes' = fixes
       /\ iterLog' = log

\* The synchronous stretch of fix from the loop test to the next await:
\* either an iteration that applies fixes and suspends at the import inside
\* the loop, or the exit of the loop (cap reached, or no accepted fix) that
\* suspends at the import before the final parse.
RunToAwait(yaml, iter, fixes, log) ==
  IF iter < options.maxIterations
  THEN \E validFixes \in {iterationFixes(yaml, options)} :
          IF Len(validFixes) = 0
          THEN /\ pc' = "awaitFinal"
               /\ currentYaml' = yaml
               /\ iteration' = iter + 1
               /\ allFixes' = fixes
               /\ iterLog' = Append(log, [before |-> yaml, accepted |-> 0, after |-> yaml])
          ELSE /\ pc' = "awaitLoad"
               /\ currentYaml' = applyFixes(yaml, validFixes)
               /\ iteration' = iter + 1
               /\ allFixes' = fixes \o validFixes
               /\ iterLog' = Append(log, [before |-> yaml, accepted |-> Len(validFixes),
                                          after |-> applyFixes(yaml, validFixes)])
  ELSE /\ pc' = "awaitFinal"
       /\ currentYaml' = yaml
       /\ iteration' = iter
       /\ allFixes' = fixes
       /\ iterLog' = log

\* fix(yamlContent): the client passes its document, or the text a previous
\* call returned
FixStart ==
  /\ pc = "idle"
  /\ calls < MaxCalls
  /\ \E text \in {doc} \cup (IF last.done THEN {last.result.fixedYaml} ELSE {}) :
       /\ callInput' = text
       /\ RunToAwait(text, 0, <<>>, <<>>)
  /\ callOptions' = options
  /\ calls' = calls + 1
  /\ UNCHANGED <<scan, yfix, doc, options, last, prev, sets, parserMemo>>

\* the import inside the loop resolves: yaml.load(currentYaml) succeeds
\* (break) or throws (continue with the next iteration)
ResumeLoad ==
  /\ pc = "awaitLoad"
  /\ \E ans \in Ask(currentYaml) :
       /\ parserMemo' = parserMemo \cup {[text |-> currentYaml, ans |-> ans]}
       /\ IF ans.ok
          THEN /\ pc' = "awaitFinal"
               /\ UNCHANGED <<currentYaml, iteration, allFixes, iterLog>>
          ELSE RunToAwait(currentYaml, iteration, allFixes, iterLog)
  /\ UNCHANGED <<scan, yfix, doc, options, callInput, callOptions, last, prev, calls, sets>>

\* the final import resolves: the final parse and the returned result
ResumeFinal ==
  /\ pc = "awaitFinal"
  /\ \E ans \in Ask(currentYaml) :
       /\ parserMemo' = parserMemo \cup {[text |-> currentYaml, ans |-> ans]}
       /\ last' = [done |-> TRUE, input |-> callInput, startOptions |-> callOptions,
                   iterations |-> iterLog, mark |-> ans,
                   result |-> [isValid |-> ans.ok,
                               fixes |-> sortAscending(allFixes),
                               errors |-> IF ans.ok THEN <<>>
                                          ELSE << [line |-> ans.line, severity |-> "error"] >>,
                               fixedYaml |-> currentYaml]]
  /\ prev' = last
  /\ pc' = "idle"
  /\ UNCHANGED <<scan, yfix, doc, options, callInput, callOptions, currentYaml, iteration, allFixes,
                 iterLog, calls, sets>>

\* setOptions(partial): the supplied fields replace the current ones
Merge(partial) ==
  [f \in DOMAIN options |-> IF f \in DOMAIN partial THEN partial[f] ELSE options[f]]

Partials ==
  {[confidenceThreshold |-> t] : t \in Thresholds}
    \cup {[aggressive |-> a] : a \in BOOLEAN}
    \cup {[maxIterations |-> m] : m \in 1..MaxIter}

\* setOptions between two fix calls
SetOptions ==
  /\ pc = "idle"
  /\ sets < MaxSets
  /\ \E partial \in Partials : options' = Merge(partial)
  /\ sets' = sets + 1
  /\ UNCHANGED <<scan, yfix, doc, pc, callInput, callOptions, currentYaml, iteration, allFixes,
                 iterLog, last, prev, calls, parserMemo>>

\* setOptions while a fix call is suspended at one of its awaits
SetOptionsDuringFix ==
  /\ pc \in {"awaitLoad", "awaitFinal"}
  /\ sets < MaxSets
  /\ \E partial \in Partials : options' = Merge(partial)
  /\ sets' = sets + 1
  /\ UNCHANGED <<scan, yfix, doc, pc, callInput, callOptions, currentYaml, iteration, allFixes,
                 iterLog, last, prev, calls, parserMemo>>

\* a single fix call on a freshly constructed fixer
FixOnce == FixStart /\ calls = 0

NextOne == FixOnce \/ ResumeLoad \/ ResumeFinal

SpecOne == Init /\ [][NextOne]_vars

\* calls on one instance, one at a time, options changed only between calls
NextSeq == FixStart \/ ResumeLoad \/ ResumeFinal \/ SetOptions

SpecSeq == Init /\ [][NextSeq]_vars

\* the same, with setOptions also arriving while a call is suspended
Next == FixStart \/ ResumeLoad \/ ResumeFinal \/ SetOptions \/ SetOptionsDuringFix

Spec == Init /\ [][Next]_vars

\* ------------------------------------------------------------------------
\* YAMLFixer.fix as a step: one call on the client's document
\* ------------------------------------------------------------------------
\* longest text handed to YAMLFixer, in lines
MaxYLines == 3

\* the lines those texts are made of: pairs that repeat a key, a pair
\* without its colon, a parent key and a list item for it, a `metadata` that
\* is a scalar and one that is a mapping, and a nested pair
YVocab ==
  { <<"n","a","m","e",":"," ","a">>, <<"n","a","m","e",":"," ","b">>, <<"n","a","m","e"," ","b">>, <<"i","t","e","m","s",":">>, <<"-"," ","x">>,
    <<"m","e","t","a","d","a","t","a",":"," ","w">>, <<"m","e","t","a","d","a","t","a",":">>, <<" "," ","n","a","m","e",":"," ","a">> }

YDocs == UNION {[1..n -> YVocab] : n \in 1..MaxYLines}

\* a fresh YAMLFixer and a client document out of D
InitWith(D) ==
  /\ doc \in D
  /\ options = Construct(80, FALSE, MaxIter)
  /\ pc = "idle"
  /\ callInput = <<>>
  /\ callOptions = options
  /\ currentYaml = <<>>
  /\ iteration = 0
  /\ allFixes = <<>>
  /\ iterLog = <<>>
  /\ last = NoCall
  /\ prev = NoCall
  /\ calls = 0
  /\ sets = 0
  /\ parserMemo = {}
  /\ yfix = NoCall
  /\ scan = NoCall

InitY == InitWith(YDocs)

\* fix(doc, {aggressive}): the call is synchronous.  The structural pass is
\* modelled on the documents Load builds, so an aggressive call is taken on
\* a text whose document is known or whose parse fails.
YFix ==
  /\ ~yfix.done
  /\ \E aggressive \in BOOLEAN :
       \E phase1 \in {phase1_syntaxNormalization(doc)} :
         \E ans \in LoadAnswers(phase1.lines) :
           /\ aggressive /\ ans.ok => ans.known
           /\ yfix' = [done |-> TRUE, input |-> doc, aggressive |-> aggressive,
                       phase1 |-> phase1.lines, ans |-> ans,
                       result |-> fix(phase1, aggressive, ans)]
           /\ parserMemo' = parserMemo \cup {[text |-> phase1.lines, ans |-> ans.mark]}
  /\ UNCHANGED <<scan, doc, options, pc, callInput, callOptions, currentYaml, iteration, allFixes,
                 iterLog, last, prev, calls, sets>>

SpecY == InitY /\ [][YFix]_vars

\* texts about numeric fields: quoted numbers as the value of a key and of
\* a key behind a list dash, a number word, a plain number
NumVocab ==
  { <<"r","e","p","l","i","c","a","s",":"," ","\"","3","\"">>, <<"-"," ","p","o","r","t",":"," ","\"","8","0","\"">>, <<"p","o","r","t",":"," ","8","0">>, <<"r","e","p","l","i","c","a","s",":"," ","t","h","r","e","e">>, <<"n","a","m","e",":"," ","a">> }

NumDocs == UNION {[1..n -> NumVocab] : n \in 1..MaxYLines}

InitNum == InitWith(NumDocs)

SpecNum == InitNum /\ [][YFix]_vars

\* ------------------------------------------------------------------------
\* Properties of IntelligentYAMLFixer
\* ------------------------------------------------------------------------
\* the parser's recorded answer for a text
ParserAccepted(text) == [text |-> text, ans |-> ParseOk] \in parserMemo

ParserRejected(text) == \E m \in parserMemo : m.text = text /\ ~m.ans.ok

\* a line whose trimmed content ends in a literal or folded scalar indicator
OpensBlockScalar(line) ==
  LET t == trim(line)
  IN \/ endsWith(t, <<"|">>) \/ endsWith(t, <<">">>)
     \/ endsWith(t, <<"|","-">>) \/ endsWith(t, <<">","-">>)

\* line i lies inside a block-scalar span: an indicator line precedes it and
\* every line from there to i is blank or indented deeper than the indicator
InBlockSpan(text, i) ==
  \E o \in 1..(i - 1) :
    /\ OpensBlockScalar(text[o])
    /\ \A k \in (o + 1)..i : trim(text[k]) = <<>> \/ getIndent(text[k]) > getIndent(text[o])

\* C1 (block-scalar inviolability): every line of the input that lies inside
\* a literal or folded block-scalar span, a span opened by `key: |` included,
\* is the same line in the text fix returns.
C1_BlockScalarInviolable ==
  last.done =>
    \A i \in 1..Len(last.input) :
      InBlockSpan(last.input, i) =>
        /\ i <= Len(last.result.fixedYaml)
        /\ last.result.fixedYaml[i] = last.input[i]

\* C4 (idempotence on valid input): when the parser accepts the input text,
\* fix returns it unchanged and reports no applied fix.
C4_IdempotentOnValid ==
  (last.done /\ PlainlyValid(last.input)) =>
    /\ last.result.fixedYaml = last.input
    /\ last.result.fixes = <<>>

\* C5 (confluence under repetition): a fix call on the text a previous call
\* returned, with the same options, applies no fix and returns that text.
C5_FixedPointAfterOneCall ==
  (/\ last.done /\ prev.done
   /\ last.input = prev.result.fixedYaml
   /\ last.startOptions = prev.startOptions) =>
    /\ last.result.fixes = <<>>
    /\ last.result.fixedYaml = last.input

\* two runs differ in nothing but the threshold
SameButThreshold(a, b) == a.aggressive = b.aggressive /\ a.maxIterations = b.maxIterations

\* C6 (confidence monotonicity): of two calls on the same input whose options
\* differ only in the threshold, the one with the higher threshold reports
\* no more applied fixes than the other.
C6_ConfidenceMonotone ==
  (/\ last.done /\ prev.done
   /\ last.input = prev.input
   /\ SameButThreshold(last.startOptions, prev.startOptions)) =>
    /\ prev.startOptions.confidenceThreshold <= last.startOptions.confidenceThreshold
         => Len(last.result.fixes) <= Len(prev.result.fixes)
    /\ last.startOptions.confidenceThreshold <= prev.startOptions.confidenceThreshold
         => Len(prev.result.fixes) <= Len(last.result.fixes)

\* C7 (bounded iteration): the loop never runs more than maxIterations
\* iterations; every iteration but the last applied fixes to a text the
\* parser then rejected; a call that stopped below the cap stopped on an
\* iteration without accepted suggestion or on a text that parses; the
\* result carries the text as last rewritten, is valid exactly when the
\* parser accepts that text, and otherwise carries the parser's error.
C7_BoundedIteration ==
  /\ iteration <= options.maxIterations
  /\ last.done =>
       LET log == last.iterations
           n == Len(log)
           cap == last.startOptions.maxIterations
       IN /\ n >= 1 /\ n <= cap
          /\ \A i \in 1..(n - 1) : log[i].accepted > 0 /\ ParserRejected(log[i].after)
          /\ \A i \in 2..n : log[i].before = log[i - 1].after
          /\ log[1].before = last.input
          /\ (n < cap /\ log[n].accepted > 0) => ParserAccepted(log[n].after)
          /\ last.result.fixedYaml = log[n].after
          /\ last.result.isValid <=> ParserAccepted(last.result.fixedYaml)
          /\ ~last.result.isValid =>
               /\ Len(last.result.errors) = 1
               /\ last.result.errors[1].line = ParseError(last.result.fixedYaml).line

\* C7 witness: a call stopped by the cap after two iterations that both
\* applied fixes, its text still rejected by the parser.
C7_Witness_CapReached ==
  /\ last.done
  /\ ~last.result.isValid
  /\ last.startOptions.maxIterations >= 2
  /\ Len(last.iterations) = last.startOptions.maxIterations
  /\ last.iterations[Len(last.iterations)].accepted > 0

\* C8 (terminal parse failure): a result for a text that does not parse holds
\* the text and an error that is critical, marked non-fixable, and carries
\* the parser's line and column.
C8_TerminalParseFailure ==
  (last.done /\ ~last.result.isValid) =>
    /\ Len(last.result.fixedYaml) > 0
    /\ \E k \in 1..Len(last.result.errors) :
         LET e == last.result.errors[k]
         IN /\ e.severity = "critical"
            /\ "fixable" \in DOMAIN e /\ ~e.fixable
            /\ "column" \in DOMAIN e

\* C9 (aggressive mode lowers the threshold): whenever the aggressive option
\* is set, the threshold in use is at most 0.6.
C9_AggressiveThreshold == options.aggressive => options.confidenceThreshold <= 60

\* C10 (no state across invocations): two calls with the same input and the
\* same options at their start return the same text, fixes and validity.
C10_ResultFunctionOfInput ==
  (/\ last.done /\ prev.done
   /\ last.input = prev.input
   /\ last.startOptions = prev.startOptions) =>
    /\ last.result.fixedYaml = prev.result.fixedYaml
    /\ last.result.fixes = prev.result.fixes
    /\ last.result.isValid = prev.result.isValid

\* ------------------------------------------------------------------------
\* Properties of YAMLFixer
\* ------------------------------------------------------------------------
\* C2 (never throw): every call of fix returns a result; no exception leaves
\* it, whatever the parsed document is.
C2_NeverThrows == yfix.done => ~yfix.result.threw

\* a `key: value` or `key:` line
IsKeyLine(line) == IsPlainPair(line) \/ IsPlainParent(line)

\* lines i < j hold the same key at the same column in one mapping: every
\* line between them is blank, or indented deeper (a nested child), or an
\* item of a list that follows its parent key with its dashes at that column
SameScopeRepeat(text, i, j) ==
  LET c == getIndent(text[i])
      ListDash(k) == IsDashWord(text[k]) /\ getIndent(text[k]) = c
  IN /\ i < j
     /\ IsKeyLine(text[i]) /\ IsKeyLine(text[j])
     /\ getIndent(text[j]) = c
     /\ KeyOf(text[i]) = KeyOf(text[j])
     /\ \A k \in (i + 1)..(j - 1) :
          \/ trim(text[k]) = <<>>
          \/ getIndent(text[k]) > c
          \/ /\ ListDash(k)
             /\ \E p \in i..(k - 1) :
                  /\ IsPlainParent(text[p]) /\ getIndent(text[p]) = c
                  /\ \A q \in (p + 1)..(k - 1) : ListDash(q)

\* C3 (duplicate removal): the text phase 1 leaves holds no key twice at one
\* column of one mapping, also when nested children or a list at that
\* column lie between the occurrences.
C3_DuplicateRemoval ==
  yfix.done =>
    \A i, j \in 1..Len(yfix.phase1) : ~SameScopeRepeat(yfix.phase1, i, j)

\* the line, without a leading list dash
ItemBody(line) ==
  LET body == trim(line)
  IN IF startsWith(body, <<"-"," ">>) THEN trim(substring(body, 2)) ELSE body

\* `key: "digits"` or `key: 'digits'`, possibly behind a list dash, the key
\* a numeric field
QuotedNumber(line) ==
  LET body == ItemBody(line)
      m == keyColonMatch(body, TRUE)
      value == substring(body, Len(m.key) + 2)
  IN [ok |-> /\ m.ok /\ m.key \in NUMERIC_FIELDS
             /\ Len(value) >= 3
             /\ value[1] \in {"\"", "'"} /\ value[Len(value)] = value[1]
             /\ AllIn(value, 2, Digit \cup {value[1]})
             /\ countOf(value, value[1]) = 2,
      key |-> m.key,
      number |-> SubSeq(value, 2, Len(value) - 1)]

\* C11 (type coercion of quoted numbers): when the text parses, every line
\* of the input that gives a numeric field a quoted number, behind a list
\* dash or not, is found in the returned text as `key: number` without the
\* quotes, in normal and in aggressive mode.
C11_QuotedNumbersCoerced ==
  (yfix.done /\ ~yfix.result.threw /\ yfix.result.errors = <<>>) =>
    \A i \in 1..Len(yfix.input) :
      QuotedNumber(yfix.input[i]).ok =>
        \E j \in 1..Len(yfix.result.content) :
          ItemBody(yfix.result.content[j]) =
            QuotedNumber(yfix.input[i]).key \o <<":"," ">> \o QuotedNumber(yfix.input[i]).number

\* ------------------------------------------------------------------------
\* The passes of the semantic pipeline run on their own: a SemanticParser
\* over the client's document, then one fixer
\* ------------------------------------------------------------------------
\* texts about broken lists: bare list items in upper and in lower case, and
\* the lines that follow them, indented deeper than the dash or not
ListVocab ==
  { <<"-"," ","D","B">>, <<"-"," ","w","e","b">>, <<" "," ","v","a","l","u","e",":"," ","x">>, <<"v","a","l","u","e",":"," ","x">>, <<" "," ","i","m","a","g","e",":"," ","x">>, <<" "," ","m","o","u","n","t","P","a","t","h",":"," ","x">> }

ListDocs == UNION {[1..n -> ListVocab] : n \in 1..MaxLines}

InitLists == InitWith(ListDocs)

\* new ListStructureFixer(parser, options).findBrokenLists()
FindBrokenLists ==
  /\ ~scan.done
  /\ \E threshold \in Thresholds :
       \E p \in {parse(doc)} :
         scan' = [done |-> TRUE, op |-> "findBrokenLists", threshold |-> threshold,
                  lines |-> p.lines, fixes |-> findBrokenLists(p, threshold)]
  /\ UNCHANGED <<yfix, doc, options, pc, callInput, callOptions, currentYaml, iteration,
                 allFixes, iterLog, last, prev, calls, sets, parserMemo>>

SpecLists == InitLists /\ [][FindBrokenLists]_vars

\* the keys that show a bare list item to be the name of an entry
RestructureKeys == {kValue, kValueFrom, kImage, kMountPath}

\* line i is a list item holding one bare scalar, and the next non-blank
\* line, indented deeper than the dash, has one of those keys
ShouldRestructure(lines, i) ==
  /\ dashWordMatch(lines[i].content, KeyChars).ok
  /\ LET n == getNextNonBlankLine(lines, i)
     IN /\ n /= 0
        /\ lines[n].key \in RestructureKeys
        /\ lines[n].indent > lines[i].indent

\* C12 (broken-list restructuring): the list pass proposes, for every bare
\* list item followed by a deeper value, valueFrom, image or mountPath line,
\* exactly one rewrite to `- name: <scalar>` at the same indent with a
\* confidence between 0.8 and 0.85, and proposes nothing for any other line.
C12_BrokenListRestructured ==
  (scan.done /\ scan.op = "findBrokenLists") =>
    \A i \in 1..Len(scan.lines) :
      LET F == {k \in 1..Len(scan.fixes) : scan.fixes[k].lineNumber = i}
      IN IF ShouldRestructure(scan.lines, i)
         THEN /\ Cardinality(F) = 1
              /\ \A k \in F :
                   /\ scan.fixes[k].fixed =
                        indentOf(scan.lines[i].content) \o <<"-"," ","n","a","m","e",":"," ">>
                          \o dashWordMatch(scan.lines[i].content, KeyChars).key
                   /\ scan.fixes[k].confidence \in 80..85
         ELSE F = {}

\* texts about parent keys without their colon: a known field, a word that
\* is not known but has the shape of a field name, a word that has not, at
\* two columns, and lines to stand below them
ColonVocab ==
  { <<"s","p","e","c">>, <<"f","o","o">>, <<"F","o","o">>, <<" "," ","f","o","o">>, <<" "," ","r","e","p","l","i","c","a","s",":"," ","3">>, <<" "," "," "," ","r","e","p","l","i","c","a","s",":"," ","3">> }

ColonDocs == UNION {[1..n -> ColonVocab] : n \in 1..MaxLines}

InitColons == InitWith(ColonDocs)

\* new ContextAwareKeyFixer(parser, options).findMissingColons()
FindMissingColons ==
  /\ ~scan.done
  /\ \E threshold \in Thresholds :
       \E p \in {parse(doc)} :
         scan' = [done |-> TRUE, op |-> "findMissingColons", threshold |-> threshold,
                  lines |-> p.lines, fixes |-> findMissingColons(p, threshold)]
  /\ UNCHANGED <<yfix, doc, options, pc, callInput, callOptions, currentYaml, iteration,
                 allFixes, iterLog, last, prev, calls, sets, parserMemo>>

SpecColons == InitColons /\ [][FindMissingColons]_vars

\* line i is one token without a colon and the next non-blank line is
\* indented deeper
ParentWithoutColon(lines, i) ==
  /\ trim(lines[i].content) /= <<>>
  /\ AllIn(trim(lines[i].content), 1, NameChars)
  /\ LET n == getNextNonBlankLine(lines, i)
     IN n /= 0 /\ lines[n].indent > lines[i].indent

\* the confidence the specification gives the parent-key fix of a token; 0
\* where it names none
ParentKeyConfidence(token) ==
  IF isKnownField(token) THEN 95
  ELSE IF matchesKubernetesPattern(token) THEN 85
  ELSE 0

\* C13 (parent-key colon insertion): for a single token without a colon
\* whose next non-blank line is indented deeper, the colon pass proposes
\* exactly the line with `:` appended, with confidence 0.95 for a known
\* field and 0.85 for an unknown token of the generic field-name shape
\* (whenever that confidence reaches the threshold of the pass).
C13_ParentKeyColon ==
  (scan.done /\ scan.op = "findMissingColons") =>
    \A i \in 1..Len(scan.lines) :
      (/\ ParentWithoutColon(scan.lines, i)
       /\ ParentKeyConfidence(trim(scan.lines[i].content)) >= scan.threshold) =>
        LET F == {k \in 1..Len(scan.fixes) : scan.fixes[k].lineNumber = i}
        IN /\ Cardinality(F) = 1
           /\ \A k \in F :
                /\ scan.fixes[k].fixed = scan.lines[i].content \o <<":">>
                /\ scan.fixes[k].confidence = ParentKeyConfidence(trim(scan.lines[i].content))

\* ------------------------------------------------------------------------
\* YAMLFixer on texts chosen for the rules of phase 1
\* ------------------------------------------------------------------------
\* pairs without the space after the colon: at column 0, indented, behind a
\* list dash, with a value that holds `://`; a pair and a parent key that
\* need nothing
SpaceVocab ==
  { <<"k","i","n","d",":","P","o","d">>, <<" "," ","n","a","m","e",":","a">>, <<"-"," ","n","a","m","e",":","a">>, <<"u","r","l",":","a",":","/","/","b">>, <<"n","a","m","e",":"," ","a">>, <<"m","e","t","a","d","a","t","a",":">> }

SpaceDocs == UNION {[1..n -> SpaceVocab] : n \in 1..MaxYLines}

InitSpace == InitWith(SpaceDocs)

SpecSpace == InitSpace /\ [][YFix]_vars

\* `key:value`, possibly behind a list dash, with no blank after the colon
\* that ends the key
TightColon(line) ==
  LET body == ItemBody(line)
      m == keyColonMatch(body, FALSE)
  IN m.ok /\ Len(body) >= Len(m.key) + 2 /\ ~IsWs(body[Len(m.key) + 2])

\* C14 (space after the key colon): no line phase 1 leaves has a key colon
\* directly followed by its value, at any indent, behind a list dash or with
\* `://` in the value; and the rule rewrites only such lines, by inserting
\* one space.
C14_SpaceAfterKeyColon ==
  yfix.done =>
    /\ \A j \in 1..Len(yfix.phase1) : ~TightColon(yfix.phase1[j])
    /\ \A k \in 1..Len(yfix.result.changes) :
         LET c == yfix.result.changes[k]
         IN (c.type = "COLON" /\ c.severity = "info") =>
              /\ TightColon(c.original)
              /\ ~TightColon(c.fixed)
              /\ Len(c.fixed) = Len(c.original) + 1

\* ------------------------------------------------------------------------
\* The line-level fixers on texts with quotes
\* ------------------------------------------------------------------------
\* values with an unclosed double quote inside the line and at its end, an
\* unclosed single quote, one of each kind, a closed pair, and a comment
\* with an apostrophe
QuoteVocab ==
  { <<"a",":"," ","\"","b">>, <<"a",":"," ","b","\"">>, <<"a",":"," ","'","b">>, <<"a",":"," ","\"","b"," ","'","c">>, <<"a",":"," ","\"","b","\"">>, <<"#"," ","i","t","'","s">> }

QuoteDocs == UNION {[1..n -> QuoteVocab] : n \in 1..MaxYLines}

InitQuotes == InitWith(QuoteDocs)

\* new IndentationValidator().fix(doc); the record keeps, for every line,
\* what the quote step of pass 1 met and what it left
IVFix ==
  /\ ~scan.done
  /\ \E targetStyle \in {detectIndentationStyle(doc)} :
       scan' = [done |-> TRUE, op |-> "IndentationValidator.fix", input |-> doc,
                quoteStep |->
                  [i \in 1..Len(doc) |->
                     [before |-> syntaxFixesBeforeQuotes(pass1(doc, i - 1, targetStyle), i, targetStyle),
                      after |-> unclosedQuotes(
                                  syntaxFixesBeforeQuotes(pass1(doc, i - 1, targetStyle), i, targetStyle))]],
                lines |-> IndentationValidator_fix(doc)]
  /\ UNCHANGED <<yfix, doc, options, pc, callInput, callOptions, currentYaml, iteration,
                 allFixes, iterLog, last, prev, calls, sets, parserMemo>>

SpecQuotes == InitQuotes /\ [][YFix \/ IVFix]_vars

Balanced(line) == countOf(line, "\"") % 2 = 0 /\ countOf(line, "'") % 2 = 0

\* C15 (quote balancing): every line the line-level fix processed holds an
\* even number of double quotes and an even number of single quotes, also
\* when its odd quote is its last character and when both kinds are odd;
\* and the rule leaves a line alone whose counts are even.  YAMLFixer phase 1
\* processes the lines that are neither blank nor comments,
\* IndentationValidator.fix every line that is not blank.
C15_QuotesBalanced ==
  /\ yfix.done =>
       /\ \A j \in 1..Len(yfix.phase1) :
            (trim(yfix.phase1[j]) /= <<>> /\ ~startsWith(trim(yfix.phase1[j]), <<"#">>)) =>
              Balanced(yfix.phase1[j])
       /\ \A k \in 1..Len(yfix.result.changes) :
            yfix.result.changes[k].type = "QUOTE" => ~Balanced(yfix.result.changes[k].original)
  /\ (scan.done /\ scan.op = "IndentationValidator.fix") =>
       \A i \in 1..Len(scan.lines) :
         trim(scan.input[i]) /= <<>> =>
           /\ Balanced(scan.lines[i])
           /\ Balanced(scan.quoteStep[i].before) => scan.quoteStep[i].after = scan.quoteStep[i].before

\* ------------------------------------------------------------------------
\* The line-level fixers on texts with tabs and trailing blanks
\* ------------------------------------------------------------------------
\* a pair with a trailing blank, a pair behind a tab, a comment with a
\* trailing blank, a comment with a tab, a line of blanks, a clean pair
WsVocab ==
  { <<"n","a","m","e",":"," ","a"," ">>, <<"\t","n","a","m","e",":"," ","a">>, <<"#"," ","c"," ">>, <<"#","\t","c">>, <<" "," ">>, <<"n","a","m","e",":"," ","a">> }

WsDocs == UNION {[1..n -> WsVocab] : n \in 1..MaxYLines}

InitWs == InitWith(WsDocs)

SpecWs == InitWs /\ [][YFix \/ IVFix]_vars

\* the line holds no tab and does not end in whitespace
CleanWhitespace(line) == ~includes(line, "\t") /\ (line = <<>> \/ ~IsWs(line[Len(line)]))

\* C16 (unconditional whitespace normalization): in the text fix returns,
\* whether it parses or not, no line outside a block-scalar span holds a tab
\* or ends in whitespace; comment lines and lines of blanks included.
C16_WhitespaceNormalized ==
  /\ (yfix.done /\ ~yfix.result.threw) =>
       \A j \in 1..Len(yfix.result.content) :
         ~InBlockSpan(yfix.result.content, j) => CleanWhitespace(yfix.result.content[j])
  /\ (scan.done /\ scan.op = "IndentationValidator.fix") =>
       \A j \in 1..Len(scan.lines) :
         ~InBlockSpan(scan.lines, j) => CleanWhitespace(scan.lines[j])

\* ------------------------------------------------------------------------
\* YAMLFixer on texts with keys that repeat
\* ------------------------------------------------------------------------
\* longest text with repeated keys, in lines
MaxDupLines == 4

\* a parent key, a list item of one pair, a second parent key, and a pair
\* below it whose key is the key of the list item, at the same column
DupVocab ==
  { <<"i","t","e","m","s",":">>, <<"-"," ","n","a","m","e",":"," ","a">>, <<"s","p","e","c",":">>, <<" "," ","n","a","m","e",":"," ","b">> }

DupDocs == UNION {[1..n -> DupVocab] : n \in 1..MaxDupLines}

InitDup == InitWith(DupDocs)

SpecDup == InitDup /\ [][YFix]_vars

\* the key of a line and the column it starts at, behind a list dash or not
KeyAt(line) ==
  LET m == keyColonMatch(ItemBody(line), FALSE)
  IN [ok |-> m.ok, key |-> m.key,
      col |-> LeadWs(line, 1) + (IF startsWith(trim(line), <<"-"," ">>)
                                 THEN 2 + LeadWs(substring(trim(line), 2), 1) ELSE 0)]

\* lines i < j give the same key at the same column of one mapping: line j
\* opens no list item, and no line between them leaves the column
SameMapping(text, i, j) ==
  /\ i < j
  /\ KeyAt(text[i]).ok /\ KeyAt(text[j]).ok
  /\ KeyAt(text[i]).key = KeyAt(text[j]).key
  /\ KeyAt(text[i]).col = KeyAt(text[j]).col
  /\ ~startsWith(trim(text[j]), <<"-">>)
  /\ \A k \in (i + 1)..(j - 1) :
       trim(text[k]) = <<>> \/ LeadWs(text[k], 1) >= KeyAt(text[i]).col

\* C17 (duplicate removal has no false positives): phase 1 removes a line
\* only if an earlier line gives the same key at the same column in the
\* same mapping; a key that repeats under another parent stays.
C17_NoFalseDuplicate ==
  yfix.done =>
    \A k \in 1..Len(yfix.result.changes) :
      yfix.result.changes[k].type = "DUPLICATE" =>
        \E i \in 1..(yfix.result.changes[k].line - 1) :
          SameMapping(yfix.input, i, yfix.result.changes[k].line)

\* ------------------------------------------------------------------------
\* ContextAnalyzer.analyzeLine called line after line by a client
\* ------------------------------------------------------------------------
MaxTrackCalls == 4

TrackVocab ==
  { <<"a",":">>, <<" "," ","b",":">>, <<" "," "," "," ","c",":"," ","1">>, <<"-","-","-">>, <<"k","i","n","d",":"," ","P","o","d">>, <<"a","p","i","V","e","r","s","i","o","n",":"," ","v","1">>,
    <<"-"," ","d",":"," ","1">>, <<>>, <<" "," ","1">>, <<"|">> }

InitTrack == InitWith({<<>>})

\* one call of analyzeLine on a fresh analyzer or on the one left by the
\* call before; scan keeps the analyzer before and after the call
AnalyzeLine ==
  /\ (IF scan.done THEN scan.n ELSE 0) < MaxTrackCalls
  /\ \E content \in TrackVocab :
       \E an \in {IF scan.done THEN scan.an ELSE EmptyAnalyzer} :
         \E r \in {analyzeLine(an, (IF scan.done THEN scan.n ELSE 0) + 1, content)} :
           scan' = [done |-> TRUE, op |-> "analyzeLine",
                    n |-> (IF scan.done THEN scan.n ELSE 0) + 1,
                    before |-> an, line |-> r.line, an |-> r.an]
  /\ UNCHANGED <<yfix, doc, options, pc, callInput, callOptions, currentYaml, iteration,
                 allFixes, iterLog, last, prev, calls, sets, parserMemo>>

SpecTrack == InitTrack /\ [][AnalyzeLine]_vars

\* C18 (indent-stack invariant): after any sequence of analyzeLine calls the
\* frames of the tracker's stack rise strictly in indent from bottom to top,
\* and no frame lies deeper than the line just processed.
C18_IndentStackInvariant ==
  scan.done =>
    /\ \A k \in 1..(Len(scan.an.tracker.indentStack) - 1) :
         scan.an.tracker.indentStack[k].indent < scan.an.tracker.indentStack[k + 1].indent
    /\ \A k \in 1..Len(scan.an.tracker.indentStack) :
         scan.an.tracker.indentStack[k].indent <= scan.line.indent

\* a key line that dedents under three open frames: the deepest frames are
\* popped and its own frame is pushed on the two that stay
C18_Witness_PopThenPush ==
  /\ scan.done
  /\ Len(scan.before.tracker.indentStack) = 3
  /\ scan.line.key /= <<>>
  /\ scan.line.indent = scan.before.tracker.indentStack[2].indent
  /\ Len(scan.an.tracker.indentStack) = 2
  /\ scan.an.tracker.indentStack[2].lineNumber = scan.n

\* C20 (separator reset): right after analyzeLine has processed a line that
\* is exactly `---`, nothing of the document before it is left: the indent
\* stack and the current key path are empty, resource kind and API version
\* are unset, the block scalar flag is off, and the document index is one
\* more than before the call.
C20_SeparatorReset ==
  (scan.done /\ scan.line.content = sepDashes) =>
    /\ scan.an.tracker.indentStack = <<>>
    /\ scan.an.currentPath = <<>>
    /\ scan.an.resourceType = <<>>
    /\ scan.an.apiVersion = <<>>
    /\ ~scan.an.inBlockScalar
    /\ scan.an.documentIndex = scan.before.documentIndex + 1

\* ------------------------------------------------------------------------
\* The line scanners on their own: SemanticParser.parse and phase 1 of
\* YAMLFixer, with the lines each of them takes as block scalar content
\* ------------------------------------------------------------------------
MaxBlockLines == 4

BlockVocab ==
  { <<"|">>, <<"d","a","t","a",":"," ","|">>, <<" "," ","r","u","n",":"," ","|">>, <<" "," ","x">>, <<" "," "," "," ","x">>, <<>>, <<"n","a","m","e",":","a">>, <<" "," ","n","a","m","e",":","a">> }

BlockDocs == UNION {[1..n -> BlockVocab] : n \in 1..MaxBlockLines}

InitBlock == InitWith(BlockDocs)

\* SemanticParser.parse: the lines met while the analyzer is in a block
\* scalar are recorded with type block-scalar and no key
Parse ==
  /\ ~scan.done
  /\ \E p \in {parse(doc)} :
       scan' = [done |-> TRUE, op |-> "parse", lines |-> p.lines,
                verbatim |-> [i \in 1..Len(doc) |-> p.lines[i].type = "block-scalar"]]
  /\ UNCHANGED <<yfix, doc, options, pc, callInput, callOptions, currentYaml, iteration,
                 allFixes, iterLog, last, prev, calls, sets, parserMemo>>

\* phase 1 of YAMLFixer: a line is pushed as it is when the flag is set
\* after the head of the loop body and it is not the first line
Phase1 ==
  /\ ~scan.done
  /\ scan' = [done |-> TRUE, op |-> "phase1_syntaxNormalization",
              lines |-> phase1_syntaxNormalization(doc).lines,
              verbatim |-> [i \in 1..Len(doc) |-> phase1Loop(doc, i).inBlockScalar /\ i > 1]]
  /\ UNCHANGED <<yfix, doc, options, pc, callInput, callOptions, currentYaml, iteration,
                 allFixes, iterLog, last, prev, calls, sets, parserMemo>>

SpecBlock == InitBlock /\ [][Parse \/ Phase1]_vars

\* the trimmed line ends in a literal or folded indicator
EndsInIndicator(line) == endsWith(trim(line), <<"|">>) \/ endsWith(trim(line), <<">">>)

\* line i lies in a span: an indicator line before it, and from there to i
\* only blank lines and lines indented deeper than the indicator line
InSpan(text, i) ==
  \E o \in 1..(i - 1) :
    /\ EndsInIndicator(text[o])
    /\ \A k \in (o + 1)..i : trim(text[k]) = <<>> \/ getIndent(text[k]) > getIndent(text[o])

\* C19 (block-scalar span boundaries): in each scanner a line that opens no
\* span itself is taken as block scalar content exactly when it lies in a
\* span: spans open at any line ending in `|` or `>`, indented or not, stay
\* open over blank and deeper lines, and close at the first non-blank line
\* at or left of the indicator line's indent, which is scanned normally.
C19_SpanBoundaries ==
  scan.done =>
    \A i \in 1..Len(doc) :
      ~EndsInIndicator(doc[i]) => (scan.verbatim[i] <=> InSpan(doc, i))

\* ------------------------------------------------------------------------
\* SemanticParser.parse and the tree buildRelationships leaves
\* ------------------------------------------------------------------------
MaxTreeLines == 4

TreeVocab ==
  { <<"a",":">>, <<" "," ","b",":"," ","1">>, <<" "," "," "," ","c">>, <<" "," ","|">>, <<>>, <<"#"," ","c">>, <<" "," ","-"," ","d">>, <<" "," ","1">> }

TreeDocs == UNION {[1..n -> TreeVocab] : n \in 1..MaxTreeLines}

InitTree == InitWith(TreeDocs)

SpecTree == InitTree /\ [][Parse]_vars

\* a line of the text that is neither blank nor a comment
Written(line) == trim(line) /= <<>> /\ ~startsWith(trim(line), <<"#">>)

\* the lines that can hold line l of the parsed text: a key or list item
\* line before it and left of it, with only deeper lines in between
Holders(lines, l) ==
  { p \in 1..(l - 1) :
      /\ lines[p].type \in {"key-only", "key-value", "list-item"}
      /\ lines[p].indent < lines[l].indent
      /\ \A k \in (p + 1)..(l - 1) :
           Written(lines[k].content) => lines[k].indent > lines[p].indent }

\* the last of a set of line numbers, 0 for none
LastOf(S) == IF S = {} THEN 0 ELSE CHOOSE p \in S : \A q \in S : q <= p

\* C21 (parent/child linking): after parse the parent of every line that is
\* neither blank nor a comment is the last key or list-item line before it
\* with a smaller indent and only deeper written lines in between, or none
\* (a root); and each such line stands exactly once, in line order, among
\* the children of its parent.
C21_ParentChildLinking ==
  (scan.done /\ scan.op = "parse") =>
    \A l \in 1..Len(scan.lines) :
      Written(scan.lines[l].content) =>
        /\ scan.lines[l].parent = LastOf(Holders(scan.lines, l))
        /\ scan.lines[l].parent /= 0 =>
             /\ Cardinality({k \in 1..Len(scan.lines[scan.lines[l].parent].children) :
                               scan.lines[scan.lines[l].parent].children[k] = l}) = 1
             /\ \A j, k \in 1..Len(scan.lines[scan.lines[l].parent].children) :
                  j < k => scan.lines[scan.lines[l].parent].children[j]
                           < scan.lines[scan.lines[l].parent].children[k]

\* ------------------------------------------------------------------------
\* IntelligentYAMLFixer.applyFixes on a text and a batch of accepted fixes
\* ------------------------------------------------------------------------
MaxApplyLines == 2

MaxBatch == 2

ApplyDocs == UNION {[1..n -> {<<"a">>, <<" "," ","b">>}] : n \in 1..MaxApplyLines}

\* the fields of a suggestion applyFixes reads
BatchFixes ==
  [lineNumber : (-1)..(MaxApplyLines + 1), fixed : {<<"a",":">>, <<" "," ","b",":">>}]

Batches == UNION {[1..n -> BatchFixes] : n \in 0..MaxBatch}

InitApply == InitWith(ApplyDocs)

ApplyFixes ==
  /\ ~scan.done
  /\ \E fixes \in Batches :
       scan' = [done |-> TRUE, op |-> "applyFixes", fixes |-> fixes,
                lines |-> applyFixes(doc, fixes)]
  /\ UNCHANGED <<yfix, doc, options, pc, callInput, callOptions, currentYaml, iteration,
                 allFixes, iterLog, last, prev, calls, sets, parserMemo>>

SpecApply == InitApply /\ [][ApplyFixes]_vars

\* the fixes of a batch aimed at line i
AimedAt(fixes, i) == {k \in 1..Len(fixes) : fixes[k].lineNumber = i}

\* C22 (applying a batch is a pure line replacement): the text keeps its
\* number of lines, a line no fix of the batch aims at is the input line, a
\* line some fix aims at is the `fixed` text of one of those fixes, and a
\* batch whose line numbers all lie below 1 or behind the last line
\* returns the input.
C22_PureLineReplacement ==
  (scan.done /\ scan.op = "applyFixes") =>
    /\ Len(scan.lines) = Len(doc)
    /\ \A i \in 1..Len(doc) :
         IF AimedAt(scan.fixes, i) = {}
         THEN scan.lines[i] = doc[i]
         ELSE \E k \in AimedAt(scan.fixes, i) : scan.lines[i] = scan.fixes[k].fixed
    /\ (\A k \in 1..Len(scan.fixes) :
          scan.fixes[k].lineNumber < 1 \/ scan.fixes[k].lineNumber > Len(doc)) => scan.lines = doc

\* a batch with one fix behind the last line and one for a line of the text
C22_Witness_InAndOutOfRange ==
  /\ scan.done /\ scan.op = "applyFixes"
  /\ Len(scan.fixes) = 2
  /\ scan.fixes[1].lineNumber = Len(doc) + 1
  /\ scan.fixes[2].lineNumber = Len(doc)
  /\ scan.lines /= doc

\* ------------------------------------------------------------------------
\* Both fixers on one document: what they report against what they return
\* ------------------------------------------------------------------------
MaxReportLines == 2

ReportVocab ==
  { <<"n","a","m","e"," ","v">>, <<"n","m">>, <<"n","a","m","e",":","a">>, <<"m","e","t","a","d","a","t","a",":">>, <<" "," ","n","a","m","e",":"," ","a">> }

ReportDocs == UNION {[1..n -> ReportVocab] : n \in 1..MaxReportLines}

InitReport == InitWith(ReportDocs)

SpecReport == InitReport /\ [][YFix \/ FixOnce \/ ResumeLoad \/ ResumeFinal]_vars

\* change k of a YAMLFixer result stands in the returned text
ChangePresent(r, k) ==
  /\ r.changes[k].line \in 1..Len(r.content)
  /\ r.content[r.changes[k].line] = r.changes[k].fixed

\* fix k of an IntelligentYAMLFixer result stands in the returned text
FixPresent(r, k) ==
  /\ r.fixes[k].lineNumber \in 1..Len(r.fixedYaml)
  /\ r.fixedYaml[r.fixes[k].lineNumber] = r.fixes[k].fixed

\* C23 (reported changes match the returned text): every change a fixer
\* reports stands in the returned text at its line unless a later reported
\* change is for the same line, and the fix count YAMLFixer reports is the
\* number of its changes that stand in the text, in normal and in
\* aggressive mode.
C23_ReportMatchesText ==
  /\ (yfix.done /\ ~yfix.result.threw) =>
       /\ \A k \in 1..Len(yfix.result.changes) :
            \/ ChangePresent(yfix.result, k)
            \/ \E j \in (k + 1)..Len(yfix.result.changes) :
                 yfix.result.changes[j].line = yfix.result.changes[k].line
       /\ yfix.result.fixedCount
            = Cardinality({k \in 1..Len(yfix.result.changes) : ChangePresent(yfix.result, k)})
  /\ last.done =>
       \A k \in 1..Len(last.result.fixes) :
         \/ FixPresent(last.result, k)
         \/ \E j \in (k + 1)..Len(last.result.fixes) :
              last.result.fixes[j].lineNumber = last.result.fixes[k].lineNumber

\* ------------------------------------------------------------------------
\* Phase 3b on a parsed document: fixSingleDocument and the dumped text
\* ------------------------------------------------------------------------
kContainers == <<"c","o","n","t","a","i","n","e","r","s">>

kTemplate == <<"t","e","m","p","l","a","t","e">>

\* an entry of a mapping, left out where the value is undefined
Field(k, v) == IF v = Undefined THEN <<>> ELSE << [k |-> k, v |-> v] >>

\* a pod template that already holds containers
FilledTemplate ==
  MapOf(<< [k |-> kMetadata, v |-> EmptyMap],
           [k |-> kSpec, v |-> MapOf(<< [k |-> kContainers, v |-> Scalar(<<"t">>)] >>)] >>)

\* parsed documents: a root mapping with or without kind, name, metadata,
\* containers, replicas and spec; each scalar differs from all others
RelocMaps ==
  { MapOf(Field(kKind, kd) \o Field(kName, nm) \o Field(kMetadata, md)
          \o Field(kContainers, ct) \o Field(kReplicas, rp) \o Field(kSpec, sp)) :
      kd \in {Undefined, Scalar(<<"D","e","p","l","o","y","m","e","n","t">>), Scalar(<<"S","e","r","v","i","c","e">>)},
      nm \in {Undefined, Scalar(<<"a">>)},
      md \in {Undefined, EmptyMap, MapOf(<< [k |-> kName, v |-> Scalar(<<"m">>)] >>)},
      ct \in {Undefined, Scalar(<<"r">>)},
      rp \in {Undefined, Scalar(<<"3">>)},
      sp \in {Undefined, EmptyMap,
               MapOf(<< [k |-> kContainers, v |-> Scalar(<<"s">>)] >>),
               MapOf(<< [k |-> kTemplate, v |-> FilledTemplate] >>),
               MapOf(<< [k |-> kContainers, v |-> Scalar(<<"s">>)],
                        [k |-> kTemplate, v |-> FilledTemplate] >>)} }

\* one document whose root is a sequence
RelocSeqs == { SeqOf(<< Scalar(<<"a">>) >>), SeqOf(<< Scalar(<<"a">>), Scalar(<<"b">>) >>) }

RelocDocs == RelocMaps \cup RelocSeqs

InitReloc == InitWith({<<>>})

\* phase3b_structuralFixes(parsed): the documents fixSingleDocument leaves
\* and the text the phase returns
Relocate ==
  /\ ~scan.done
  /\ \E parsed \in RelocDocs :
       scan' = [done |-> TRUE, op |-> "phase3b_structuralFixes", parsed |-> parsed,
                docs |-> IF parsed.t = "seq" THEN fixEach(parsed.e)
                         ELSE << fixSingleDocument(parsed) >>,
                out |-> phase3b_structuralFixes(parsed)]
  /\ UNCHANGED <<yfix, doc, options, pc, callInput, callOptions, currentYaml, iteration,
                 allFixes, iterLog, last, prev, calls, sets, parserMemo>>

SpecReloc == InitReloc /\ [][Relocate]_vars

\* the document is a mapping and none of the fields is a key of it
HoldsNone(v, fields) == v.t = "map" => \A n \in 1..Len(fields) : Get(v, fields[n]) = Undefined

WorkloadKinds == {Scalar(<<"D","e","p","l","o","y","m","e","n","t">>), Scalar(<<"S","t","a","t","e","f","u","l","S","e","t">>), Scalar(<<"D","a","e","m","o","n","S","e","t">>)}

\* C24 (relocation postcondition): after the relocation of a mapping
\* document of kind Deployment, StatefulSet or DaemonSet the root holds no
\* metadata field and no replica/selector/template-level field, neither the
\* root nor `spec` holds a pod-level field, also when the field stood at
\* both places, and spec.template.metadata and spec.template.spec exist.
C24_RelocationPostcondition ==
  (/\ scan.done /\ scan.op = "phase3b_structuralFixes"
   /\ scan.parsed.t = "map" /\ Get(scan.parsed, kKind) \in WorkloadKinds
   /\ ~scan.docs[1].threw) =>
    /\ HoldsNone(scan.docs[1].doc, METADATA_FIELDS)
    /\ HoldsNone(scan.docs[1].doc, SPEC_FIELDS)
    /\ HoldsNone(scan.docs[1].doc, POD_SPEC_FIELDS)
    /\ HoldsNone(Get(scan.docs[1].doc, kSpec), POD_SPEC_FIELDS)
    /\ GetPath(scan.docs[1].doc, <<kSpec, kTemplate, kMetadata>>) /= Undefined
    /\ GetPath(scan.docs[1].doc, <<kSpec, kTemplate, kSpec>>) /= Undefined

\* the scalars a value holds (no two scalars of a document above are equal)
RECURSIVE ScalarsOf(_)
ScalarsOf(v) ==
  IF v.t = "scalar" THEN {v.s}
  ELSE IF v.t = "map" THEN UNION {ScalarsOf(v.e[n].v) : n \in 1..Len(v.e)}
  ELSE IF v.t = "seq" THEN UNION {ScalarsOf(v.e[n]) : n \in 1..Len(v.e)}
  ELSE {}

\* C25 (relocation loses no data and keeps the document count): one parsed
\* document, a sequence at the root included, is fixed and written as one
\* document, and every scalar of the parsed document is still in the
\* document after relocation, so a value already at the destination of a
\* moved field is not overwritten.
C25_RelocationKeepsData ==
  (scan.done /\ scan.op = "phase3b_structuralFixes" /\ ~scan.out.threw) =>
    /\ Len(scan.docs) = 1
    /\ \A n \in 1..Len(scan.out.content) : scan.out.content[n] /= sepDashes
    /\ Len(scan.docs) = 1 => ScalarsOf(scan.parsed) \subseteq ScalarsOf(scan.docs[1].doc)

\* ------------------------------------------------------------------------
\* FieldNormalizer.findTypos on its own
\* ------------------------------------------------------------------------
MaxTypoLines == 3

\* two keys one edit away from `name` and `kind`, at the root and under a
\* parent, and the parents `metadata` and `spec`
TypoVocab ==
  { <<"m","e","t","a","d","a","t","a",":">>, <<"s","p","e","c",":">>, <<"n","m","e",":"," ","a">>, <<" "," ","n","m","e",":"," ","a">>, <<"k","i","n",":"," ","a">>, <<" "," ","k","i","n",":"," ","a">> }

TypoDocs == UNION {[1..n -> TypoVocab] : n \in 1..MaxTypoLines}

InitTypos == InitWith(TypoDocs)

FindTypos ==
  /\ ~scan.done
  /\ \E threshold \in Thresholds :
       \E p \in {parse(doc)} :
         scan' = [done |-> TRUE, op |-> "findTypos", threshold |-> threshold,
                  lines |-> p.lines, fixes |-> findTypos(p, threshold)]
  /\ UNCHANGED <<yfix, doc, options, pc, callInput, callOptions, currentYaml, iteration,
                 allFixes, iterLog, last, prev, calls, sets, parserMemo>>

SpecTypos == InitTypos /\ [][FindTypos]_vars

\* the keys of the lines that enclose line i, outermost first
RECURSIVE EnclosingPath(_, _)
EnclosingPath(lines, i) ==
  IF lines[i].parent = 0 THEN <<>>
  ELSE Append(EnclosingPath(lines, lines[i].parent), lines[lines[i].parent].key)

\* the confidence of an edit-distance suggestion for a line whose key path
\* is path: the distance value, raised by 0.1 up to 1.0 where the field is
\* plausible for the path
BoostedFor(key, path) ==
  IF isContextAppropriate(path, findClosestMatch(key, KNOWN_FIELDS, 2).match)
  THEN Min2(calculateFuzzyConfidence(findClosestMatch(key, KNOWN_FIELDS, 2).distance) + 10, 100)
  ELSE calculateFuzzyConfidence(findClosestMatch(key, KNOWN_FIELDS, 2).distance)

\* C26 (context boost uses the line's own position): the confidence of
\* every typo suggestion found by edit distance carries the +0.1 boost
\* exactly when the suggested field is plausible for the key path that
\* encloses the line it is for, whatever lines follow that line.
C26_BoostByOwnPath ==
  (scan.done /\ scan.op = "findTypos") =>
    \A k \in 1..Len(scan.fixes) :
      getCanonicalFieldName(scan.lines[scan.fixes[k].lineNumber].key) = <<>> =>
        scan.fixes[k].confidence
          = BoostedFor(scan.lines[scan.fixes[k].lineNumber].key,
                       EnclosingPath(scan.lines, scan.fixes[k].lineNumber))

\* ------------------------------------------------------------------------
\* The colon pass on a parent key without its colon and its siblings
\* ------------------------------------------------------------------------
MaxSiblingLines == 5

\* `foo` over a child, then up to five more lines: root pairs, a root
\* token without a colon, children
SiblingDocs ==
  { << <<"f","o","o">>, <<" "," ","a",":"," ","1">> >> \o rest :
      rest \in UNION {[1..n -> { <<"b",":"," ","1">>, <<"b","a","r">>, <<" "," ","c",":"," ","1">> }] : n \in 0..MaxSiblingLines} }

InitSiblings == InitWith(SiblingDocs)

SpecSiblings == InitSiblings /\ [][FindMissingColons]_vars

\* the confidence of the parent-key fix before the siblings are looked at
ParentKeyBase(key) ==
  IF isKnownField(key) THEN 95 ELSE IF matchesKubernetesPattern(key) THEN 75 ELSE 60

\* the siblings of line i that contain a colon
WithColon(lines, i) == SelectSeq(findSiblings(lines, lines[i]), LAMBDA l : l.hasColon)

\* C27 (sibling-pattern learning): the fix for a parent key without its
\* colon that has siblings carries a confidence of at least 0.85 whenever
\* at least 80% of the siblings contain a colon, exactly 80% included, and
\* its base confidence when fewer do.
C27_SiblingLearning ==
  (scan.done /\ scan.op = "findMissingColons") =>
    \A k \in 1..Len(scan.fixes) :
      (/\ ParentWithoutColon(scan.lines, scan.fixes[k].lineNumber)
       /\ Len(findSiblings(scan.lines, scan.lines[scan.fixes[k].lineNumber])) > 0) =>
        IF 100 * Len(WithColon(scan.lines, scan.fixes[k].lineNumber))
             >= 80 * Len(findSiblings(scan.lines, scan.lines[scan.fixes[k].lineNumber]))
        THEN scan.fixes[k].confidence >= 85
        ELSE scan.fixes[k].confidence
               = ParentKeyBase(trim(scan.lines[scan.fixes[k].lineNumber].content))

\* C28 (list-item key extraction): a line of the form `- key: value` or
\* `- key:` comes out of analyzeLine with its key and value set to the
\* text on either side of the first colon after the leading dash.
C28_ListItemKeyExtraction ==
  (/\ scan.done /\ scan.op = "analyzeLine"
   /\ startsWith(trim(scan.line.content), <<"-", " ">>)
   /\ includes(trim(scan.line.content), ":")) =>
    /\ scan.line.key = extractKeyValue(trim(scan.line.content)).key
    /\ scan.line.value = extractKeyValue(trim(scan.line.content)).value
    /\ scan.line.key /= <<>>

\* ------------------------------------------------------------------------
\* IndentationValidator.fix with { style: u, mode: 'indentation' }
\* ------------------------------------------------------------------------
MaxIndentLines == 3

IndentStyles == {2, 4}

\* pass 1 in indentation mode: the trailing-space step and steps 1 to 5 are
\* for the other modes; the tab step runs in both
tabPass(lines, targetStyle) ==
  [i \in 1..Len(lines) |->
     IF trim(lines[i]) = <<>> THEN lines[i] ELSE tabsToSpaces(lines[i], targetStyle)]

\* the lines and the fixedCount of fix(content, {style, mode: 'indentation'})
fixIndentation(content, targetStyle) ==
  [lines |-> pass2(tabPass(content, targetStyle), targetStyle),
   fixedCount |->
     Cardinality({i \in 1..Len(content) : tabPass(content, targetStyle)[i] /= content[i]})
     + Cardinality({i \in 1..Len(content) :
                      pass2(tabPass(content, targetStyle), targetStyle)[i]
                        /= tabPass(content, targetStyle)[i]})]

IndentVocab ==
  { <<"a",":">>, <<" ","b">>, <<" "," ","b">>, <<" "," "," ","b">>, <<" "," "," "," ","b">>, <<" "," "," "," "," "," ","b">>, <<"#"," ","c">>, <<>>,
    <<"a", ":", "\t", "b">>, <<"\t", "b">> }

IndentDocs == UNION {[1..n -> IndentVocab] : n \in 1..MaxIndentLines}

InitIndent == InitWith(IndentDocs)

\* fix in indentation mode, and fix again on what it returned
FixIndentation ==
  /\ ~scan.done
  /\ \E targetStyle \in IndentStyles :
       \E r \in {fixIndentation(doc, targetStyle)} :
         scan' = [done |-> TRUE, op |-> "IndentationValidator.fix", mode |-> "indentation",
                  style |-> targetStyle, input |-> doc,
                  lines |-> r.lines, fixedCount |-> r.fixedCount,
                  again |-> fixIndentation(r.lines, targetStyle)]
  /\ UNCHANGED <<yfix, doc, options, pc, callInput, callOptions, currentYaml, iteration,
                 allFixes, iterLog, last, prev, calls, sets, parserMemo>>

DetectIndentationStyle ==
  /\ ~scan.done
  /\ scan' = [done |-> TRUE, op |-> "detectIndentationStyle", input |-> doc,
              style |-> detectIndentationStyle(doc)]
  /\ UNCHANGED <<yfix, doc, options, pc, callInput, callOptions, currentYaml, iteration,
                 allFixes, iterLog, last, prev, calls, sets, parserMemo>>

SpecIndent == InitIndent /\ [][FixIndentation \/ DetectIndentationStyle]_vars

\* what follows the leading whitespace of a line
AfterIndent(line) == SubSeq(line, LeadWs(line, 1) + 1, Len(line))

\* C29 (one sweep is a fixed point): after fix in indentation mode with
\* unit u every line that is neither blank nor a comment has an indent
\* that is a multiple of u, an indented line is still indented, what
\* follows the indent is what it was, and a second sweep with the same
\* unit changes no line and reports zero fixes.
C29_IndentFixedPoint ==
  (scan.done /\ scan.op = "IndentationValidator.fix" /\ scan.mode = "indentation") =>
    /\ Len(scan.lines) = Len(scan.input)
    /\ \A i \in 1..Len(scan.input) :
         (trim(scan.input[i]) /= <<>> /\ ~startsWith(trim(scan.input[i]), <<"#">>)) =>
           /\ LeadWs(scan.lines[i], 1) % scan.style = 0
           /\ (LeadWs(scan.input[i], 1) > 0 => LeadWs(scan.lines[i], 1) > 0)
           /\ AfterIndent(scan.lines[i]) = AfterIndent(scan.input[i])
    /\ scan.again.lines = scan.lines
    /\ scan.again.fixedCount = 0

\* the indents of the indented lines of a document
IndentsOf(content) ==
  {LeadWs(content[i], 1) : i \in {j \in 1..Len(content) : LeadWs(content[j], 1) > 0}}

\* C30 (the 4-space style is detectable): detectIndentationStyle answers 4
\* for a document whose indented lines all sit at multiples of 4, 2 for a
\* document indented in steps of 2, and never anything but 2 or 4.
C30_FourSpaceDetectable ==
  (scan.done /\ scan.op = "detectIndentationStyle") =>
    /\ scan.style \in {2, 4}
    /\ (IndentsOf(scan.input) /= {} /\ \A n \in IndentsOf(scan.input) : n % 4 = 0)
         => scan.style = 4
    /\ ((\A n \in IndentsOf(scan.input) : n % 2 = 0) /\ \E n \in IndentsOf(scan.input) : n % 4 /= 0)
         => scan.style = 2

====
